---------------------------- MODULE Spec2Model ----------------------------
(***************************************************************************)
(* Interactive weighted-graph editor (src/src/App.tsx): the graph held in  *)
(* graphData, the Dijkstra engine findShortestPath, the five edit modes    *)
(* driven by handleNodeClick, and the setTimeout-based highlight expiry.   *)
(*                                                                         *)
(* Encoding.  A node id `node${k}` is the positive integer k; null is      *)
(* Null.  An edge is a record [source, target, weight]; graphData.links is *)
(* a sequence (a JavaScript array).  A text ('' , "12", "-5") is the       *)
(* sequence of its characters.  A highlight key `${a}-${b}` is <<a, b>>.   *)
(* A Set<string> is a sequence without repetition in insertion order       *)
(* (JavaScript sets iterate in insertion order).                           *)
(***************************************************************************)
EXTENDS Integers, Sequences, FiniteSets, TLC

\* ------------------------------------------------------------------ bounds
\* number of nodes generateInitialNodes creates (50 in the source)
InitNodes == 3
\* nodes the graph may grow to through handleDoneSelection
MaxNodes == 4
\* generateWeight draws from 1..MaxWeight (1..30 in the source)
MaxWeight == 3
\* the initial graphs explored have the weights generateWeight draws up to
\* InitMaxWeight
InitMaxWeight == 1
\* random long-distance connections of generateInitialEdges (10 in the source)
LongDistanceConnections == 1
\* side of the square grid the initial node positions are drawn from
GridSize == 1
\* pending setTimeout callbacks kept at once
MaxTimers == 2
\* user events (clicks, picks, edits that set state) of one explored session
MaxEvents == 7
\* snapshots handed to findShortestPath in SpecPath
PathNodes == 4
PathMaxWeight == 2
\* weights of the snapshots findShortestPath is stepped through in SpecLoop
LoopMaxWeight == 1
\* the prompt-driven variants: nodes (50 in the source), random additional
\* edges (10 in the source) and button clicks of a session
PromptNodes == 3
PromptExtraEdges == 1
PromptEvents == 2

\* ------------------------------------------------------- values of the code
Null == 0
Infinity == 1000000
NullPathInfo == [path |-> <<>>, totalWeight |-> 0]

Digits == <<"0", "1", "2", "3", "4", "5", "6", "7", "8", "9">>

IsDigit(c) == \E i \in 1..10 : Digits[i] = c

DigitValue(c) == (CHOOSE i \in 1..10 : Digits[i] = c) - 1

\* ------------------------------------------------------------ sequence help
Range(s) == {s[i] : i \in 1..Len(s)}

\* ------------------------------------------------------- findShortestPath
RECURSIVE AddEdgesToGraphDirected(_, _)
\* AddEdgesToGraph without the push on the target's list
AddEdgesToGraphDirected(graph, edges) ==
  IF edges = <<>> THEN graph
  ELSE LET edge == Head(edges)
           g1 == [graph EXCEPT ![edge.source] =
                    Append(@, [node |-> edge.target, weight |-> edge.weight])]
       IN AddEdgesToGraphDirected(g1, Tail(edges))

RECURSIVE AddEdgesToGraph(_, _)
\* edges.forEach: each edge is pushed on the lists of both its endpoints
AddEdgesToGraph(graph, edges) ==
  IF edges = <<>> THEN graph
  ELSE LET edge == Head(edges)
           sourceId == edge.source
           targetId == edge.target
           g1 == [graph EXCEPT ![sourceId] =
                    Append(@, [node |-> targetId, weight |-> edge.weight])]
           g2 == [g1 EXCEPT ![targetId] =
                    Append(@, [node |-> sourceId, weight |-> edge.weight])]
       IN AddEdgesToGraph(g2, Tail(edges))

\* the adjacency list `graph`
AdjacencyList(nodes, edges) ==
  AddEdgesToGraph([id \in Range(nodes) |-> <<>>], edges)

RECURSIVE FindMinUnvisitedLast(_, _, _, _)
\* FindMinUnvisited forgetting minDistance = distances[nodeId]: the last node
\* of distance below Infinity
FindMinUnvisitedLast(unvisited, distances, minDistance, current) ==
  IF unvisited = <<>> THEN current
  ELSE LET nodeId == Head(unvisited) IN
       IF distances[nodeId] < minDistance
       THEN FindMinUnvisitedLast(Tail(unvisited), distances, minDistance, nodeId)
       ELSE FindMinUnvisitedLast(Tail(unvisited), distances, minDistance, current)

RECURSIVE FindMinUnvisited(_, _, _, _)
\* unvisited.forEach: the first node, in insertion order, of least distance
\* below Infinity; Null stands for the initial current = ''
FindMinUnvisited(unvisited, distances, minDistance, current) ==
  IF unvisited = <<>> THEN current
  ELSE LET nodeId == Head(unvisited) IN
       IF distances[nodeId] < minDistance
       THEN FindMinUnvisited(Tail(unvisited), distances, distances[nodeId], nodeId)
       ELSE FindMinUnvisited(Tail(unvisited), distances, minDistance, current)

RECURSIVE RelaxNeighborsAlways(_, _, _, _)
\* RelaxNeighbors overwriting the distance without comparing it
RelaxNeighborsAlways(neighbors, current, unvisited, st) ==
  IF neighbors = <<>> THEN st
  ELSE LET neighbor == Head(neighbors)
           newDistance == st.distances[current] + neighbor.weight
           st1 == IF neighbor.node \in Range(unvisited)
                  THEN [distances |-> [st.distances EXCEPT ![neighbor.node] = newDistance],
                        previous |-> [st.previous EXCEPT ![neighbor.node] = current]]
                  ELSE st
       IN RelaxNeighborsAlways(Tail(neighbors), current, unvisited, st1)

RECURSIVE RelaxNeighbors(_, _, _, _)
\* graph[current].forEach: relax every neighbour that is still unvisited
RelaxNeighbors(neighbors, current, unvisited, st) ==
  IF neighbors = <<>> THEN st
  ELSE LET neighbor == Head(neighbors)
           newDistance == st.distances[current] + neighbor.weight
           st1 == IF /\ neighbor.node \in Range(unvisited)
                     /\ newDistance < st.distances[neighbor.node]
                  THEN [distances |-> [st.distances EXCEPT ![neighbor.node] = newDistance],
                        previous |-> [st.previous EXCEPT ![neighbor.node] = current]]
                  ELSE st
       IN RelaxNeighbors(Tail(neighbors), current, unvisited, st1)

RECURSIVE DijkstraLoop(_, _, _, _)
\* while (unvisited.size > 0) { select; break or delete; relax }
DijkstraLoop(graph, endNodeId, unvisited, st) ==
  IF Len(unvisited) = 0 THEN st
  ELSE LET current == FindMinUnvisited(unvisited, st.distances, Infinity, Null) IN
       IF current = Null \/ current = endNodeId THEN st
       ELSE LET rest == SelectSeq(unvisited, LAMBDA id : id # current)
            IN DijkstraLoop(graph, endNodeId, rest,
                            RelaxNeighbors(graph[current], current, rest, st))

RECURSIVE ReconstructPath(_, _, _)
\* while (current !== null) { path.unshift(current); current = previous[current] }
ReconstructPath(previous, current, path) ==
  IF current = Null THEN path
  ELSE ReconstructPath(previous, previous[current], <<current>> \o path)

findShortestPath(nodes, edges, startNodeId, endNodeId) ==
  LET graph == AdjacencyList(nodes, edges)
      distances0 == [id \in Range(nodes) |-> IF id = startNodeId THEN 0 ELSE Infinity]
      previous0 == [id \in Range(nodes) |-> Null]
      st == DijkstraLoop(graph, endNodeId, nodes,
                         [distances |-> distances0, previous |-> previous0])
  IN IF st.distances[endNodeId] = Infinity THEN NullPathInfo
     ELSE [path |-> ReconstructPath(st.previous, endNodeId, <<>>),
           totalWeight |-> st.distances[endNodeId]]

\* ------------------------------------------------- initial graph generation
\* generateInitialNodes: ids node1..node${InitNodes}, in creation order
generateInitialNodes == [i \in 1..InitNodes |-> i]

\* the positions generateInitialNodes may give the nodes: pairwise distinct
\* points (the tooClose test keeps any two nodes apart)
Grid == (0..GridSize) \X (0..GridSize)

InitialPositions ==
  {pos \in [1..InitNodes -> Grid] :
     \A a, b \in 1..InitNodes : a # b => pos[a] # pos[b]}

\* the square of the distance generateInitialEdges sorts by (sqrt is monotone)
SquaredDistance(pos, a, b) ==
  (pos[a][1] - pos[b][1]) * (pos[a][1] - pos[b][1])
    + (pos[a][2] - pos[b][2]) * (pos[a][2] - pos[b][2])

RECURSIVE InsertByDistance(_, _, _, _)
\* one step of the stable sort: n goes behind every element not farther than it
InsertByDistance(sorted, n, pos, node) ==
  IF sorted = <<>> THEN <<n>>
  ELSE IF SquaredDistance(pos, node, Head(sorted)) <= SquaredDistance(pos, node, n)
       THEN <<Head(sorted)>> \o InsertByDistance(Tail(sorted), n, pos, node)
       ELSE <<n>> \o sorted

RECURSIVE SortByDistance(_, _, _, _)
SortByDistance(others, sorted, pos, node) ==
  IF others = <<>> THEN sorted
  ELSE SortByDistance(Tail(others), InsertByDistance(sorted, Head(others), pos, node),
                      pos, node)

\* nodes.filter(n => n.id !== node.id).map(...).sort(by distance)
NearestNeighbors(nodes, pos, node) ==
  SortByDistance(SelectSeq(nodes, LAMBDA n : n # node), <<>>, pos, node)

\* tryAddEdge: push unless the pair was added in either orientation; the
\* weight is the next draw of generateWeight (weights[k] for the k-th push)
tryAddEdge(acc, source, target, weights) ==
  IF <<source, target>> \notin acc.addedEdges /\ <<target, source>> \notin acc.addedEdges
  THEN [edges |-> Append(acc.edges,
                         [source |-> source, target |-> target,
                          weight |-> weights[Len(acc.edges) + 1]]),
        addedEdges |-> acc.addedEdges \cup {<<source, target>>}]
  ELSE acc

RECURSIVE ConnectNearest(_, _, _, _, _, _)
\* for (i = 0; i < Math.min(connectCount, distances.length); i++) tryAddEdge
ConnectNearest(acc, node, nearest, i, limit, weights) ==
  IF i > limit THEN acc
  ELSE ConnectNearest(tryAddEdge(acc, node, nearest[i], weights),
                      node, nearest, i + 1, limit, weights)

RECURSIVE ConnectAllNodes(_, _, _, _, _, _)
\* nodes.forEach: connect each node to its connectCount nearest neighbours
ConnectAllNodes(acc, k, nodes, pos, connectCount, weights) ==
  IF k > Len(nodes) THEN acc
  ELSE LET node == nodes[k]
           nearest == NearestNeighbors(nodes, pos, node)
           limit == IF connectCount[k] < Len(nearest) THEN connectCount[k]
                    ELSE Len(nearest)
       IN ConnectAllNodes(ConnectNearest(acc, node, nearest, 1, limit, weights),
                          k + 1, nodes, pos, connectCount, weights)

RECURSIVE ConnectLongDistance(_, _, _, _, _)
\* the random long-distance connections, skipped when both indexes agree
ConnectLongDistance(acc, i, picks, nodes, weights) ==
  IF i > Len(picks) THEN acc
  ELSE LET sourceIndex == picks[i][1]
           targetIndex == picks[i][2]
           acc1 == IF sourceIndex # targetIndex
                   THEN tryAddEdge(acc, nodes[sourceIndex], nodes[targetIndex], weights)
                   ELSE acc
       IN ConnectLongDistance(acc1, i + 1, picks, nodes, weights)

generateInitialEdges(nodes, pos, connectCount, picks, weights) ==
  LET near == ConnectAllNodes([edges |-> <<>>, addedEdges |-> {}], 1,
                              nodes, pos, connectCount, weights)
  IN ConnectLongDistance(near, 1, picks, nodes, weights).edges

\* generateWeight without the + 1
generateWeightFromZero == 0..(MaxWeight - 1)

\* generateWeight: Math.floor(Math.random() * MaxWeight) + 1
generateWeight == 1..MaxWeight

\* connectCount = 2 + Math.floor(Math.random() * 3)
ConnectCounts == 2..4

\* ------------------------------------------------------------ text and ints
NaN == [isNaN |-> TRUE, value |-> 0]

RECURSIVE DigitPrefixLength(_)
DigitPrefixLength(text) ==
  IF text = <<>> \/ ~IsDigit(Head(text)) THEN 0
  ELSE 1 + DigitPrefixLength(Tail(text))

RECURSIVE DigitsValue(_, _)
DigitsValue(text, acc) ==
  IF text = <<>> THEN acc
  ELSE DigitsValue(Tail(text), 10 * acc + DigitValue(Head(text)))

\* parseInt(text): an optional sign, then the longest prefix of digits
parseInt(text) ==
  LET signed == text # <<>> /\ Head(text) \in {"-", "+"}
      body == IF signed THEN Tail(text) ELSE text
      n == DigitPrefixLength(body)
      magnitude == DigitsValue(SubSeq(body, 1, n), 0)
  IN IF n = 0 THEN NaN
     ELSE [isNaN |-> FALSE,
           value |-> IF signed /\ Head(text) = "-" THEN 0 - magnitude ELSE magnitude]

RECURSIVE toString(_)
\* Number.prototype.toString of a non-negative integer
toString(n) ==
  IF n < 10 THEN <<Digits[n + 1]>>
  ELSE toString(n \div 10) \o <<Digits[(n % 10) + 1]>>

\* /^\d*$/.test(value)
OnlyDigits(value) == \A i \in 1..Len(value) : IsDigit(value[i])

\* the values typed into the weight input
WeightInputs ==
  {<<>>, <<"0">>, <<"2">>, <<"0", "1">>, <<"-", "5">>, <<"1", "x">>}

\* ------------------------------------------------------------------- state
VARIABLES
  nodes, links,                 \* graphData
  shortestPathInfo,
  isSelectingNodes, selectedNodes, newNodeId,
  isAddingEdge, edgeSourceNode, edgeTargetNode,
  isRemovingEdge, removeSourceNode, removeTargetNode,
  isModifyingWeight, weightSourceNode, weightTargetNode,
  isFindingPath, pathSourceNode, pathTargetNode,
  newWeight, weightError,
  newNodeHighlight, newEdgeHighlight,
  edgeError, removeEdgeError,
  weightEdgeHighlight, modifiedEdgeHighlight,
  timers,                       \* pending setTimeout callbacks, oldest first
  events,                       \* user events handled so far
  call,                         \* the findShortestPath call under test, if any
  alertMessage                  \* the message of the latest alert(), "" if none

\* no call of findShortestPath is under test: the App runs
NoCall == [pc |-> "app", startNodeId |-> Null, endNodeId |-> Null,
           result |-> NullPathInfo]

graphData == <<nodes, links>>
selectingState == <<isSelectingNodes, selectedNodes, newNodeId>>
addEdgeState == <<isAddingEdge, edgeSourceNode, edgeTargetNode>>
removeEdgeState == <<isRemovingEdge, removeSourceNode, removeTargetNode>>
modifyWeightState == <<isModifyingWeight, weightSourceNode, weightTargetNode>>
findPathState == <<isFindingPath, pathSourceNode, pathTargetNode>>
weightInputState == <<newWeight, weightError>>
highlightState ==
  <<newNodeHighlight, newEdgeHighlight, weightEdgeHighlight, modifiedEdgeHighlight>>
errorState == <<edgeError, removeEdgeError>>

vars ==
  <<graphData, shortestPathInfo, selectingState, addEdgeState, removeEdgeState,
    modifyWeightState, findPathState, weightInputState, highlightState,
    errorState, timers, events, call, alertMessage>>

\* one more user event that sets state is handled; sessions are explored up
\* to MaxEvents of them
UserEvent == call = NoCall /\ events < MaxEvents /\ events' = events + 1

\* the useState initial values of every hook but graphData
InitSession ==
  /\ shortestPathInfo = NullPathInfo
  /\ isSelectingNodes = FALSE /\ selectedNodes = <<>> /\ newNodeId = Null
  /\ isAddingEdge = FALSE /\ edgeSourceNode = Null /\ edgeTargetNode = Null
  /\ isRemovingEdge = FALSE /\ removeSourceNode = Null /\ removeTargetNode = Null
  /\ isModifyingWeight = FALSE /\ weightSourceNode = Null /\ weightTargetNode = Null
  /\ isFindingPath = FALSE /\ pathSourceNode = Null /\ pathTargetNode = Null
  /\ newWeight = <<>> /\ weightError = ""
  /\ newNodeHighlight = Null /\ newEdgeHighlight = {}
  /\ edgeError = "" /\ removeEdgeError = ""
  /\ weightEdgeHighlight = {} /\ modifiedEdgeHighlight = {}
  /\ timers = <<>>
  /\ events = 0
  /\ alertMessage = ""

\* at most one edge per unordered pair of InitNodes nodes
MaxInitialEdges == (InitNodes * (InitNodes - 1)) \div 2

\* graphData after the lazy useState initialiser
Init ==
  /\ InitSession
  /\ call = NoCall
  /\ nodes = generateInitialNodes
  /\ \E pos \in InitialPositions,
        connectCount \in [1..InitNodes -> ConnectCounts],
        picks \in [1..LongDistanceConnections -> (1..InitNodes) \X (1..InitNodes)],
        weights \in [1..MaxInitialEdges ->
                      {weight \in generateWeight : weight <= InitMaxWeight}] :
       links = generateInitialEdges(nodes, pos, connectCount, picks, weights)

\* ------------------------------------------------------------ mode entries
\* NextFreeNumber without the while loop
NextFreeNumberFirst(existingNodeNumbers, nextNodeNumber) == nextNodeNumber

RECURSIVE NextFreeNumber(_, _)
\* while (existingNodeNumbers.has(nextNodeNumber)) nextNodeNumber++
NextFreeNumber(existingNodeNumbers, nextNodeNumber) ==
  IF nextNodeNumber \in existingNodeNumbers
  THEN NextFreeNumber(existingNodeNumbers, nextNodeNumber + 1)
  ELSE nextNodeNumber

\* the "Add New Node" button
handleAddNewNode ==
  /\ UserEvent
  /\ Len(nodes) < MaxNodes
  /\ shortestPathInfo' = NullPathInfo
  /\ isAddingEdge' = FALSE /\ edgeSourceNode' = Null /\ edgeTargetNode' = Null
  /\ isRemovingEdge' = FALSE /\ removeSourceNode' = Null /\ removeTargetNode' = Null
  /\ isModifyingWeight' = FALSE /\ weightSourceNode' = Null /\ weightTargetNode' = Null
  /\ newWeight' = <<>> /\ weightError' = ""
  /\ isFindingPath' = FALSE /\ pathSourceNode' = Null /\ pathTargetNode' = Null
  /\ newNodeId' = NextFreeNumber(Range(nodes), 1)
  /\ isSelectingNodes' = TRUE
  /\ selectedNodes' = <<>>
  /\ UNCHANGED <<graphData, highlightState, errorState, timers, call, alertMessage>>

\* handleAddEdge forgetting to leave the find-path mode
handleAddEdgeKeepsFindPath ==
  /\ UserEvent
  /\ shortestPathInfo' = NullPathInfo
  /\ isSelectingNodes' = FALSE /\ selectedNodes' = <<>> /\ newNodeId' = Null
  /\ isRemovingEdge' = FALSE /\ removeSourceNode' = Null /\ removeTargetNode' = Null
  /\ isModifyingWeight' = FALSE /\ weightSourceNode' = Null /\ weightTargetNode' = Null
  /\ newWeight' = <<>> /\ weightError' = ""
  /\ isAddingEdge' = TRUE /\ edgeSourceNode' = Null /\ edgeTargetNode' = Null
  /\ UNCHANGED <<graphData, findPathState, highlightState, errorState, timers, call, alertMessage>>

\* handleAddEdge without setSelectedNodes([])
handleAddEdgeKeepsPeers ==
  /\ UserEvent
  /\ shortestPathInfo' = NullPathInfo
  /\ isSelectingNodes' = FALSE /\ newNodeId' = Null
  /\ isRemovingEdge' = FALSE /\ removeSourceNode' = Null /\ removeTargetNode' = Null
  /\ isModifyingWeight' = FALSE /\ weightSourceNode' = Null /\ weightTargetNode' = Null
  /\ newWeight' = <<>> /\ weightError' = ""
  /\ isFindingPath' = FALSE /\ pathSourceNode' = Null /\ pathTargetNode' = Null
  /\ isAddingEdge' = TRUE /\ edgeSourceNode' = Null /\ edgeTargetNode' = Null
  /\ UNCHANGED <<graphData, selectedNodes, highlightState, errorState, timers,
                 call, alertMessage>>

\* the "Add Edge" button
handleAddEdge ==
  /\ UserEvent
  /\ shortestPathInfo' = NullPathInfo
  /\ isSelectingNodes' = FALSE /\ selectedNodes' = <<>> /\ newNodeId' = Null
  /\ isRemovingEdge' = FALSE /\ removeSourceNode' = Null /\ removeTargetNode' = Null
  /\ isModifyingWeight' = FALSE /\ weightSourceNode' = Null /\ weightTargetNode' = Null
  /\ newWeight' = <<>> /\ weightError' = ""
  /\ isFindingPath' = FALSE /\ pathSourceNode' = Null /\ pathTargetNode' = Null
  /\ isAddingEdge' = TRUE /\ edgeSourceNode' = Null /\ edgeTargetNode' = Null
  /\ UNCHANGED <<graphData, highlightState, errorState, timers, call, alertMessage>>

\* handleRemoveEdge without setShortestPathInfo(null)
handleRemoveEdgeKeepsResult ==
  /\ UserEvent
  /\ isSelectingNodes' = FALSE /\ selectedNodes' = <<>> /\ newNodeId' = Null
  /\ isAddingEdge' = FALSE /\ edgeSourceNode' = Null /\ edgeTargetNode' = Null
  /\ isModifyingWeight' = FALSE /\ weightSourceNode' = Null /\ weightTargetNode' = Null
  /\ newWeight' = <<>> /\ weightError' = ""
  /\ isFindingPath' = FALSE /\ pathSourceNode' = Null /\ pathTargetNode' = Null
  /\ isRemovingEdge' = TRUE /\ removeSourceNode' = Null /\ removeTargetNode' = Null
  /\ UNCHANGED <<graphData, shortestPathInfo, highlightState, errorState,
                 timers, call, alertMessage>>

\* the "Remove Edge" button
handleRemoveEdge ==
  /\ UserEvent
  /\ shortestPathInfo' = NullPathInfo
  /\ isSelectingNodes' = FALSE /\ selectedNodes' = <<>> /\ newNodeId' = Null
  /\ isAddingEdge' = FALSE /\ edgeSourceNode' = Null /\ edgeTargetNode' = Null
  /\ isModifyingWeight' = FALSE /\ weightSourceNode' = Null /\ weightTargetNode' = Null
  /\ newWeight' = <<>> /\ weightError' = ""
  /\ isFindingPath' = FALSE /\ pathSourceNode' = Null /\ pathTargetNode' = Null
  /\ isRemovingEdge' = TRUE /\ removeSourceNode' = Null /\ removeTargetNode' = Null
  /\ UNCHANGED <<graphData, highlightState, errorState, timers, call, alertMessage>>

\* the "Modify Weight" button
handleModifyWeight ==
  /\ UserEvent
  /\ shortestPathInfo' = NullPathInfo
  /\ isSelectingNodes' = FALSE /\ selectedNodes' = <<>> /\ newNodeId' = Null
  /\ isAddingEdge' = FALSE /\ edgeSourceNode' = Null /\ edgeTargetNode' = Null
  /\ isRemovingEdge' = FALSE /\ removeSourceNode' = Null /\ removeTargetNode' = Null
  /\ isFindingPath' = FALSE /\ pathSourceNode' = Null /\ pathTargetNode' = Null
  /\ isModifyingWeight' = TRUE /\ weightSourceNode' = Null /\ weightTargetNode' = Null
  /\ newWeight' = <<>> /\ weightError' = ""
  /\ UNCHANGED <<graphData, highlightState, errorState, timers, call, alertMessage>>

\* handleFindPath forgetting to leave the add-edge mode
handleFindPathKeepsAddEdge ==
  /\ UserEvent
  /\ shortestPathInfo' = NullPathInfo
  /\ isSelectingNodes' = FALSE /\ selectedNodes' = <<>> /\ newNodeId' = Null
  /\ isRemovingEdge' = FALSE /\ removeSourceNode' = Null /\ removeTargetNode' = Null
  /\ isModifyingWeight' = FALSE /\ weightSourceNode' = Null /\ weightTargetNode' = Null
  /\ newWeight' = <<>> /\ weightError' = ""
  /\ isFindingPath' = TRUE /\ pathSourceNode' = Null /\ pathTargetNode' = Null
  /\ UNCHANGED <<graphData, addEdgeState, highlightState, errorState, timers, call,
                 alertMessage>>

\* the "Find Shortest Path" button
handleFindPath ==
  /\ UserEvent
  /\ shortestPathInfo' = NullPathInfo
  /\ isSelectingNodes' = FALSE /\ selectedNodes' = <<>> /\ newNodeId' = Null
  /\ isAddingEdge' = FALSE /\ edgeSourceNode' = Null /\ edgeTargetNode' = Null
  /\ isRemovingEdge' = FALSE /\ removeSourceNode' = Null /\ removeTargetNode' = Null
  /\ isModifyingWeight' = FALSE /\ weightSourceNode' = Null /\ weightTargetNode' = Null
  /\ newWeight' = <<>> /\ weightError' = ""
  /\ isFindingPath' = TRUE /\ pathSourceNode' = Null /\ pathTargetNode' = Null
  /\ UNCHANGED <<graphData, highlightState, errorState, timers, call, alertMessage>>

\* ------------------------------------------------------------- node picks
\* NodeClickSelecting that only ever adds the node
NodeClickSelectingOnlyAdds(node) ==
  /\ isSelectingNodes /\ newNodeId # Null
  /\ UserEvent
  /\ selectedNodes' =
       IF node \in Range(selectedNodes) THEN selectedNodes
       ELSE Append(selectedNodes, node)
  /\ UNCHANGED <<graphData, shortestPathInfo, isSelectingNodes, newNodeId,
                 addEdgeState, removeEdgeState, modifyWeightState, findPathState,
                 weightInputState, highlightState, errorState, timers, call,
                 alertMessage>>

\* isSelectingNodes && newNodeId: toggle the node in selectedNodes
NodeClickSelecting(node) ==
  /\ isSelectingNodes /\ newNodeId # Null
  /\ UserEvent
  /\ selectedNodes' =
       IF node \in Range(selectedNodes)
       THEN SelectSeq(selectedNodes, LAMBDA id : id # node)
       ELSE Append(selectedNodes, node)
  /\ UNCHANGED <<graphData, shortestPathInfo, isSelectingNodes, newNodeId,
                 addEdgeState, removeEdgeState, modifyWeightState, findPathState,
                 weightInputState, highlightState, errorState, timers, call, alertMessage>>

\* AddEdgeExists comparing only the stored orientation
AddEdgeExistsForwardOnly(source, node) ==
  \E i \in 1..Len(links) : links[i].source = source /\ links[i].target = node

\* links.some(...) of the isAddingEdge branch
AddEdgeExists(source, node) ==
  \E i \in 1..Len(links) :
     \/ links[i].source = source /\ links[i].target = node
     \/ links[i].source = node /\ links[i].target = source

\* AddEdgePickSource forgetting setEdgeError('')
AddEdgePickSourceKeepsError(node) ==
  /\ edgeSourceNode = Null
  /\ UserEvent
  /\ edgeSourceNode' = node
  /\ UNCHANGED <<graphData, edgeTargetNode, edgeError, newEdgeHighlight, timers>>

\* first pick: the node becomes the source
AddEdgePickSource(node) ==
  /\ edgeSourceNode = Null
  /\ UserEvent
  /\ edgeSourceNode' = node
  /\ edgeError' = ""
  /\ UNCHANGED <<graphData, edgeTargetNode, newEdgeHighlight, timers>>

\* AddEdgePickSame with a plain else for the second pick: a self-loop is made
AddEdgePickSameCreatesLoop(node) ==
  /\ edgeSourceNode # Null /\ node = edgeSourceNode
  /\ UserEvent
  /\ Len(timers) < MaxTimers
  /\ \E weight \in generateWeight :
       links' = Append(links, [source |-> edgeSourceNode, target |-> node,
                               weight |-> weight])
  /\ newEdgeHighlight' = {<<edgeSourceNode, node>>}
  /\ edgeTargetNode' = node
  /\ edgeError' = ""
  /\ timers' = Append(timers, "newEdge")
  /\ UNCHANGED <<nodes, edgeSourceNode>>

\* a pick of the source itself matches no branch
AddEdgePickSame(node) ==
  /\ edgeSourceNode # Null /\ node = edgeSourceNode
  /\ UNCHANGED <<graphData, edgeSourceNode, edgeTargetNode, edgeError,
                 newEdgeHighlight, timers, events>>

\* AddEdgeRejected without the return: the edge is created all the same
AddEdgeRejectedFallsThrough(node) ==
  /\ edgeSourceNode # Null /\ node # edgeSourceNode
  /\ AddEdgeExists(edgeSourceNode, node)
  /\ UserEvent
  /\ \E weight \in generateWeight :
       links' = Append(links, [source |-> edgeSourceNode, target |-> node,
                               weight |-> weight])
  /\ edgeError' = ""
  /\ UNCHANGED <<nodes, edgeSourceNode, edgeTargetNode, newEdgeHighlight, timers>>

\* if (edgeExists) { setEdgeError(...); return; }
AddEdgeRejected(node) ==
  /\ edgeSourceNode # Null /\ node # edgeSourceNode
  /\ AddEdgeExists(edgeSourceNode, node)
  /\ UserEvent
  /\ edgeError' = "An edge already exists between these nodes"
  /\ UNCHANGED <<graphData, edgeSourceNode, edgeTargetNode, newEdgeHighlight, timers>>

\* AddEdgeCreated that ends the session: the source is forgotten
AddEdgeCreatedForgetsSource(node) ==
  /\ edgeSourceNode # Null /\ node # edgeSourceNode
  /\ ~AddEdgeExists(edgeSourceNode, node)
  /\ UserEvent
  /\ Len(timers) < MaxTimers
  /\ \E weight \in generateWeight :
       links' = Append(links, [source |-> edgeSourceNode, target |-> node,
                               weight |-> weight])
  /\ newEdgeHighlight' = {<<edgeSourceNode, node>>}
  /\ edgeTargetNode' = node
  /\ edgeError' = ""
  /\ timers' = Append(timers, "newEdge")
  /\ edgeSourceNode' = Null
  /\ UNCHANGED nodes

\* the edge is created, highlighted, and its highlight timer is scheduled
AddEdgeCreated(node) ==
  /\ edgeSourceNode # Null /\ node # edgeSourceNode
  /\ ~AddEdgeExists(edgeSourceNode, node)
  /\ UserEvent
  /\ Len(timers) < MaxTimers
  /\ \E weight \in generateWeight :
       links' = Append(links, [source |-> edgeSourceNode, target |-> node,
                               weight |-> weight])
  /\ newEdgeHighlight' = {<<edgeSourceNode, node>>}
  /\ edgeTargetNode' = node
  /\ edgeError' = ""
  /\ timers' = Append(timers, "newEdge")
  /\ UNCHANGED <<nodes, edgeSourceNode>>

NodeClickAddingEdge(node) ==
  /\ ~(isSelectingNodes /\ newNodeId # Null)
  /\ isAddingEdge
  /\ \/ AddEdgePickSource(node)
     \/ AddEdgePickSame(node)
     \/ AddEdgeRejected(node)
     \/ AddEdgeCreated(node)
  /\ UNCHANGED <<shortestPathInfo, selectingState, isAddingEdge, removeEdgeState,
                 modifyWeightState, findPathState, weightInputState,
                 newNodeHighlight, weightEdgeHighlight, modifiedEdgeHighlight,
                 removeEdgeError, call, alertMessage>>

\* links.some(...) of the isRemovingEdge branch
RemoveEdgeExists(source, node) ==
  \E i \in 1..Len(links) :
     \/ links[i].source = source /\ links[i].target = node
     \/ links[i].source = node /\ links[i].target = source

\* RemoveEdgeFilter comparing only the picked orientation
RemoveEdgeFilterForwardOnly(prevLinks, source, node) ==
  SelectSeq(prevLinks, LAMBDA link : ~(link.source = source /\ link.target = node))

\* prev.links.filter(...) of the isRemovingEdge branch
RemoveEdgeFilter(prevLinks, source, node) ==
  SelectSeq(prevLinks,
            LAMBDA link : ~(\/ link.source = source /\ link.target = node
                            \/ link.source = node /\ link.target = source))

RemoveEdgePickSource(node) ==
  /\ removeSourceNode = Null
  /\ UserEvent
  /\ removeSourceNode' = node
  /\ removeEdgeError' = ""
  /\ UNCHANGED <<graphData, removeTargetNode>>

\* RemoveEdgePickSame taking the pick as a deselection of the source
RemoveEdgePickSameForgetsSource(node) ==
  /\ removeSourceNode # Null /\ node = removeSourceNode
  /\ UserEvent
  /\ removeSourceNode' = Null
  /\ UNCHANGED <<graphData, removeTargetNode, removeEdgeError>>

RemoveEdgePickSame(node) ==
  /\ removeSourceNode # Null /\ node = removeSourceNode
  /\ UNCHANGED <<graphData, removeSourceNode, removeTargetNode, removeEdgeError,
                 events>>

\* RemoveEdgeRejected that also forgets the recorded source
RemoveEdgeRejectedResets(node) ==
  /\ removeSourceNode # Null /\ node # removeSourceNode
  /\ ~RemoveEdgeExists(removeSourceNode, node)
  /\ UserEvent
  /\ removeEdgeError' = "No edge exists between these nodes"
  /\ removeSourceNode' = Null
  /\ UNCHANGED <<graphData, removeTargetNode>>

\* if (!edgeExists) { setRemoveEdgeError(...); return; }
RemoveEdgeRejected(node) ==
  /\ removeSourceNode # Null /\ node # removeSourceNode
  /\ ~RemoveEdgeExists(removeSourceNode, node)
  /\ UserEvent
  /\ removeEdgeError' = "No edge exists between these nodes"
  /\ UNCHANGED <<graphData, removeSourceNode, removeTargetNode>>

RemoveEdgeRemoved(node) ==
  /\ removeSourceNode # Null /\ node # removeSourceNode
  /\ RemoveEdgeExists(removeSourceNode, node)
  /\ UserEvent
  /\ links' = RemoveEdgeFilter(links, removeSourceNode, node)
  /\ removeTargetNode' = node
  /\ removeEdgeError' = ""
  /\ UNCHANGED <<nodes, removeSourceNode>>

NodeClickRemovingEdge(node) ==
  /\ ~(isSelectingNodes /\ newNodeId # Null) /\ ~isAddingEdge
  /\ isRemovingEdge
  /\ \/ RemoveEdgePickSource(node)
     \/ RemoveEdgePickSame(node)
     \/ RemoveEdgeRejected(node)
     \/ RemoveEdgeRemoved(node)
  /\ UNCHANGED <<shortestPathInfo, selectingState, addEdgeState, isRemovingEdge,
                 modifyWeightState, findPathState, weightInputState,
                 highlightState, edgeError, timers, call, alertMessage>>

\* FindWeightEdge comparing only the picked orientation
FindWeightEdgeForwardOnly(source, node) ==
  LET matches == {i \in 1..Len(links) :
                    links[i].source = source /\ links[i].target = node}
  IN IF matches = {} THEN 0
     ELSE CHOOSE i \in matches : \A j \in matches : i <= j

\* links.find(...) of the isModifyingWeight branch: the index of the first
\* edge joining the two nodes, 0 when find returns undefined
FindWeightEdge(source, node) ==
  LET matches == {i \in 1..Len(links) :
                    \/ links[i].source = source /\ links[i].target = node
                    \/ links[i].source = node /\ links[i].target = source}
  IN IF matches = {} THEN 0
     ELSE CHOOSE i \in matches : \A j \in matches : i <= j

ModifyWeightPickSource(node) ==
  /\ weightSourceNode = Null
  /\ UserEvent
  /\ weightSourceNode' = node
  /\ weightError' = ""
  /\ weightEdgeHighlight' = {}
  /\ UNCHANGED <<weightTargetNode, newWeight>>

ModifyWeightPickSame(node) ==
  /\ weightSourceNode # Null /\ node = weightSourceNode
  /\ UNCHANGED <<weightSourceNode, weightTargetNode, newWeight, weightError,
                 weightEdgeHighlight, events>>

\* if (edge) { ... }: the target is recorded and the weight offered for editing
ModifyWeightEdgeFound(node) ==
  /\ weightSourceNode # Null /\ node # weightSourceNode
  /\ FindWeightEdge(weightSourceNode, node) # 0
  /\ UserEvent
  /\ weightTargetNode' = node
  /\ newWeight' = toString(links[FindWeightEdge(weightSourceNode, node)].weight)
  /\ weightError' = ""
  /\ weightEdgeHighlight' = {<<weightSourceNode, node>>}
  /\ UNCHANGED weightSourceNode

\* else { setWeightError(...); setWeightEdgeHighlight(new Set()); }
ModifyWeightNoEdge(node) ==
  /\ weightSourceNode # Null /\ node # weightSourceNode
  /\ FindWeightEdge(weightSourceNode, node) = 0
  /\ UserEvent
  /\ weightError' = "No edge exists between these nodes"
  /\ weightEdgeHighlight' = {}
  /\ UNCHANGED <<weightSourceNode, weightTargetNode, newWeight>>

NodeClickModifyingWeight(node) ==
  /\ ~(isSelectingNodes /\ newNodeId # Null) /\ ~isAddingEdge /\ ~isRemovingEdge
  /\ isModifyingWeight
  /\ \/ ModifyWeightPickSource(node)
     \/ ModifyWeightPickSame(node)
     \/ ModifyWeightEdgeFound(node)
     \/ ModifyWeightNoEdge(node)
  /\ UNCHANGED <<graphData, shortestPathInfo, selectingState, addEdgeState,
                 removeEdgeState, isModifyingWeight, findPathState,
                 newNodeHighlight, newEdgeHighlight, modifiedEdgeHighlight,
                 errorState, timers, call, alertMessage>>

FindPathPickSource(node) ==
  /\ pathSourceNode = Null
  /\ UserEvent
  /\ pathSourceNode' = node
  /\ UNCHANGED <<shortestPathInfo, pathTargetNode, alertMessage>>

FindPathPickSame(node) ==
  /\ pathSourceNode # Null /\ node = pathSourceNode
  /\ UNCHANGED <<shortestPathInfo, pathSourceNode, pathTargetNode, events,
                 alertMessage>>

\* if (result) { setShortestPathInfo(result); setPathTargetNode(node.id); }
FindPathFound(node) ==
  /\ pathSourceNode # Null /\ node # pathSourceNode
  /\ findShortestPath(nodes, links, pathSourceNode, node) # NullPathInfo
  /\ UserEvent
  /\ shortestPathInfo' = findShortestPath(nodes, links, pathSourceNode, node)
  /\ pathTargetNode' = node
  /\ UNCHANGED <<pathSourceNode, alertMessage>>

\* FindPathNoPath that records the picked node as the target all the same
FindPathNoPathRecordsTarget(node) ==
  /\ pathSourceNode # Null /\ node # pathSourceNode
  /\ findShortestPath(nodes, links, pathSourceNode, node) = NullPathInfo
  /\ alertMessage' = "No path exists between these nodes"
  /\ pathTargetNode' = node
  /\ UNCHANGED <<shortestPathInfo, pathSourceNode, events>>

\* else { alert('No path exists between these nodes'); }
FindPathNoPath(node) ==
  /\ pathSourceNode # Null /\ node # pathSourceNode
  /\ findShortestPath(nodes, links, pathSourceNode, node) = NullPathInfo
  /\ alertMessage' = "No path exists between these nodes"
  /\ UNCHANGED <<shortestPathInfo, pathSourceNode, pathTargetNode, events>>

NodeClickFindingPath(node) ==
  /\ ~(isSelectingNodes /\ newNodeId # Null) /\ ~isAddingEdge /\ ~isRemovingEdge
  /\ ~isModifyingWeight
  /\ isFindingPath
  /\ \/ FindPathPickSource(node)
     \/ FindPathPickSame(node)
     \/ FindPathFound(node)
     \/ FindPathNoPath(node)
  /\ UNCHANGED <<graphData, selectingState, addEdgeState, removeEdgeState,
                 modifyWeightState, isFindingPath, weightInputState,
                 highlightState, errorState, timers, call>>

\* no mode is active: the click falls through every branch
NodeClickIdle(node) ==
  /\ ~(isSelectingNodes /\ newNodeId # Null) /\ ~isAddingEdge /\ ~isRemovingEdge
  /\ ~isModifyingWeight /\ ~isFindingPath
  /\ UNCHANGED vars

\* onNodeClick of the graph: node is one of graphData.nodes
handleNodeClick(node) ==
  /\ call = NoCall
  /\ node \in Range(nodes)
  /\ \/ NodeClickSelecting(node)
     \/ NodeClickAddingEdge(node)
     \/ NodeClickRemovingEdge(node)
     \/ NodeClickModifyingWeight(node)
     \/ NodeClickFindingPath(node)
     \/ NodeClickIdle(node)

\* ------------------------------------------------------ new-node selection
\* NewEdges joining the new node to the first chosen peer every time
NewEdgesToFirstPeer(weights) ==
  [i \in 1..Len(selectedNodes) |->
     [source |-> newNodeId, target |-> selectedNodes[1], weight |-> weights[i]]]

\* Array.from(selectedNodes).map(targetId => ({source: newNodeId, ...}))
NewEdges(weights) ==
  [i \in 1..Len(selectedNodes) |->
     [source |-> newNodeId, target |-> selectedNodes[i], weight |-> weights[i]]]

\* DoneSelectionRejected without the return: the node is added with no edge
DoneSelectionRejectedFallsThrough ==
  /\ (newNodeId = Null \/ Len(selectedNodes) = 0)
  /\ alertMessage' = "Please select at least one node to connect with"
  /\ shortestPathInfo' = NullPathInfo
  /\ newNodeHighlight' = newNodeId
  /\ newEdgeHighlight' = {}
  /\ nodes' = Append(nodes, newNodeId)
  /\ isSelectingNodes' = FALSE
  /\ selectedNodes' = <<>>
  /\ newNodeId' = Null
  /\ UNCHANGED <<links, weightEdgeHighlight, modifiedEdgeHighlight, timers, events>>

\* if (!newNodeId || selectedNodes.size === 0) { alert(...); return; }
DoneSelectionRejected ==
  /\ (newNodeId = Null \/ Len(selectedNodes) = 0)
  /\ alertMessage' = "Please select at least one node to connect with"
  /\ UNCHANGED <<graphData, shortestPathInfo, selectingState, highlightState,
                 timers, events>>

\* the node and its edges are added and highlighted, the mode is left
DoneSelectionAccepted ==
  /\ ~(newNodeId = Null \/ Len(selectedNodes) = 0)
  /\ UserEvent
  /\ Len(timers) < MaxTimers
  /\ shortestPathInfo' = NullPathInfo
  /\ newNodeHighlight' = newNodeId
  /\ newEdgeHighlight' = {<<newNodeId, selectedNodes[i]>> : i \in 1..Len(selectedNodes)}
  /\ nodes' = Append(nodes, newNodeId)
  /\ \E weights \in [1..Len(selectedNodes) -> generateWeight] :
       links' = links \o NewEdges(weights)
  /\ isSelectingNodes' = FALSE
  /\ selectedNodes' = <<>>
  /\ newNodeId' = Null
  /\ timers' = Append(timers, "newNode")
  /\ UNCHANGED <<weightEdgeHighlight, modifiedEdgeHighlight, alertMessage>>

\* the "Done" button of the selection panel
handleDoneSelection ==
  /\ call = NoCall
  /\ isSelectingNodes
  /\ \/ DoneSelectionRejected
     \/ DoneSelectionAccepted
  /\ UNCHANGED <<addEdgeState, removeEdgeState, modifyWeightState, findPathState,
                 weightInputState, errorState, call>>

\* handleCancelSelection forgetting setNewNodeId(null)
handleCancelSelectionKeepsPending ==
  /\ UserEvent
  /\ shortestPathInfo' = NullPathInfo
  /\ isSelectingNodes' = FALSE
  /\ selectedNodes' = <<>>
  /\ newNodeHighlight' = Null
  /\ newEdgeHighlight' = {}
  /\ UNCHANGED <<graphData, newNodeId, addEdgeState, removeEdgeState,
                 modifyWeightState, findPathState, weightInputState,
                 weightEdgeHighlight, modifiedEdgeHighlight, errorState, timers,
                 call, alertMessage>>

\* the "Cancel" button of the selection panel
handleCancelSelection ==
  /\ UserEvent
  /\ shortestPathInfo' = NullPathInfo
  /\ isSelectingNodes' = FALSE
  /\ selectedNodes' = <<>>
  /\ newNodeId' = Null
  /\ newNodeHighlight' = Null
  /\ newEdgeHighlight' = {}
  /\ UNCHANGED <<graphData, addEdgeState, removeEdgeState, modifyWeightState,
                 findPathState, weightInputState, weightEdgeHighlight,
                 modifiedEdgeHighlight, errorState, timers, call, alertMessage>>

\* --------------------------------------------------------------- cancels
\* handleCancelAddEdge toggling the mode flag instead of resetting it
handleCancelAddEdgeToggles ==
  /\ UserEvent
  /\ isAddingEdge' = ~isAddingEdge /\ edgeSourceNode' = Null /\ edgeTargetNode' = Null
  /\ UNCHANGED <<graphData, shortestPathInfo, selectingState, removeEdgeState,
                 modifyWeightState, findPathState, weightInputState,
                 highlightState, errorState, timers, call, alertMessage>>

handleCancelAddEdge ==
  /\ UserEvent
  /\ isAddingEdge' = FALSE /\ edgeSourceNode' = Null /\ edgeTargetNode' = Null
  /\ UNCHANGED <<graphData, shortestPathInfo, selectingState, removeEdgeState,
                 modifyWeightState, findPathState, weightInputState,
                 highlightState, errorState, timers, call, alertMessage>>

handleCancelRemoveEdge ==
  /\ UserEvent
  /\ isRemovingEdge' = FALSE /\ removeSourceNode' = Null /\ removeTargetNode' = Null
  /\ UNCHANGED <<graphData, shortestPathInfo, selectingState, addEdgeState,
                 modifyWeightState, findPathState, weightInputState,
                 highlightState, errorState, timers, call, alertMessage>>

handleCancelModifyWeight ==
  /\ UserEvent
  /\ isModifyingWeight' = FALSE /\ weightSourceNode' = Null /\ weightTargetNode' = Null
  /\ newWeight' = <<>> /\ weightError' = ""
  /\ weightEdgeHighlight' = {}
  /\ modifiedEdgeHighlight' = {}
  /\ UNCHANGED <<graphData, shortestPathInfo, selectingState, addEdgeState,
                 removeEdgeState, findPathState, newNodeHighlight,
                 newEdgeHighlight, errorState, timers, call, alertMessage>>

\* handleCancelFindPath without setShortestPathInfo(null)
handleCancelFindPathKeepsResult ==
  /\ UserEvent
  /\ isFindingPath' = FALSE /\ pathSourceNode' = Null /\ pathTargetNode' = Null
  /\ UNCHANGED <<graphData, shortestPathInfo, selectingState, addEdgeState,
                 removeEdgeState, modifyWeightState, weightInputState,
                 highlightState, errorState, timers, call, alertMessage>>

handleCancelFindPath ==
  /\ UserEvent
  /\ isFindingPath' = FALSE /\ pathSourceNode' = Null /\ pathTargetNode' = Null
  /\ shortestPathInfo' = NullPathInfo
  /\ UNCHANGED <<graphData, selectingState, addEdgeState, removeEdgeState,
                 modifyWeightState, weightInputState, highlightState,
                 errorState, timers, call, alertMessage>>

\* ------------------------------------------------------------ weight edit
\* the weight input and the "Update Weight" button are rendered only when
\* isModifyingWeight and both weightSourceNode and weightTargetNode are set
WeightFormShown ==
  isModifyingWeight /\ weightSourceNode # Null /\ weightTargetNode # Null

\* onChange of the weight input
handleWeightChange(value) ==
  /\ call = NoCall
  /\ WeightFormShown
  /\ IF value = <<>> \/ OnlyDigits(value)
     THEN /\ UserEvent
          /\ newWeight' = value
          /\ weightError' = ""
     ELSE UNCHANGED <<newWeight, weightError, events>>
  /\ UNCHANGED <<graphData, shortestPathInfo, selectingState, addEdgeState,
                 removeEdgeState, modifyWeightState, findPathState,
                 highlightState, errorState, timers, call, alertMessage>>

\* SetWeight comparing only the picked orientation
SetWeightForwardOnly(prevLinks, source, target, weight) ==
  [i \in 1..Len(prevLinks) |->
     IF prevLinks[i].source = source /\ prevLinks[i].target = target
     THEN [prevLinks[i] EXCEPT !.weight = weight]
     ELSE prevLinks[i]]

\* prev.links.map(...): the weight of every edge joining the pair is replaced
SetWeight(prevLinks, source, target, weight) ==
  [i \in 1..Len(prevLinks) |->
     IF \/ prevLinks[i].source = source /\ prevLinks[i].target = target
        \/ prevLinks[i].source = target /\ prevLinks[i].target = source
     THEN [prevLinks[i] EXCEPT !.weight = weight]
     ELSE prevLinks[i]]

\* ValidWeight without the weight > 0 test
ValidWeightAnyNumber(weight) == ~weight.isNaN

\* weight is accepted when !isNaN(weight) && weight > 0
ValidWeight(weight) == ~weight.isNaN /\ weight.value > 0

\* if (!newWeight) { setWeightError('Please enter a weight'); return; }
WeightSubmitEmpty ==
  /\ newWeight = <<>>
  /\ weightError' = "Please enter a weight"
  /\ UNCHANGED <<graphData, newWeight, modifiedEdgeHighlight, timers>>

\* the weight of the edge is replaced, the edge highlighted, the input cleared
WeightSubmitAccepted ==
  /\ newWeight # <<>>
  /\ ValidWeight(parseInt(newWeight))
  /\ Len(timers) < MaxTimers
  /\ links' = SetWeight(links, weightSourceNode, weightTargetNode,
                        parseInt(newWeight).value)
  /\ modifiedEdgeHighlight' = {<<weightSourceNode, weightTargetNode>>}
  /\ newWeight' = <<>>
  /\ weightError' = ""
  /\ timers' = Append(timers, "modified")
  /\ UNCHANGED nodes

\* else { setWeightError('Please enter a valid positive number'); }
WeightSubmitRejected ==
  /\ newWeight # <<>>
  /\ ~ValidWeight(parseInt(newWeight))
  /\ weightError' = "Please enter a valid positive number"
  /\ UNCHANGED <<graphData, newWeight, modifiedEdgeHighlight, timers>>

\* the "Update Weight" button
handleWeightSubmit ==
  /\ call = NoCall
  /\ WeightFormShown
  /\ UserEvent
  /\ \/ WeightSubmitEmpty
     \/ WeightSubmitAccepted
     \/ WeightSubmitRejected
  /\ UNCHANGED <<shortestPathInfo, selectingState, addEdgeState, removeEdgeState,
                 modifyWeightState, findPathState, newNodeHighlight,
                 newEdgeHighlight, weightEdgeHighlight, errorState, call, alertMessage>>

\* ---------------------------------------------------------- highlight expiry
\* TimerFires whose callbacks also drop the displayed path result
TimerFiresDropsPath ==
  /\ call = NoCall
  /\ timers # <<>>
  /\ \/ /\ Head(timers) = "newEdge"
        /\ newEdgeHighlight' = {}
        /\ UNCHANGED <<newNodeHighlight, modifiedEdgeHighlight>>
     \/ /\ Head(timers) = "newNode"
        /\ newNodeHighlight' = Null
        /\ newEdgeHighlight' = {}
        /\ UNCHANGED modifiedEdgeHighlight
     \/ /\ Head(timers) = "modified"
        /\ modifiedEdgeHighlight' = {}
        /\ UNCHANGED <<newNodeHighlight, newEdgeHighlight>>
  /\ shortestPathInfo' = NullPathInfo
  /\ timers' = Tail(timers)
  /\ UNCHANGED <<graphData, selectingState, addEdgeState,
                 removeEdgeState, modifyWeightState, findPathState,
                 weightInputState, weightEdgeHighlight, errorState, events, call, alertMessage>>

\* TimerFires whose callback of handleWeightSubmit does nothing
TimerFiresKeepsModified ==
  /\ call = NoCall
  /\ timers # <<>>
  /\ \/ /\ Head(timers) = "newEdge"
        /\ newEdgeHighlight' = {}
        /\ UNCHANGED <<newNodeHighlight, modifiedEdgeHighlight>>
     \/ /\ Head(timers) = "newNode"
        /\ newNodeHighlight' = Null
        /\ newEdgeHighlight' = {}
        /\ UNCHANGED modifiedEdgeHighlight
     \/ /\ Head(timers) = "modified"
        /\ UNCHANGED <<newNodeHighlight, newEdgeHighlight, modifiedEdgeHighlight>>
  /\ timers' = Tail(timers)
  /\ UNCHANGED <<graphData, shortestPathInfo, selectingState, addEdgeState,
                 removeEdgeState, modifyWeightState, findPathState,
                 weightInputState, weightEdgeHighlight, errorState, events, call, alertMessage>>

\* the oldest pending setTimeout callback runs (every delay is 15000 ms, so
\* callbacks run in the order they were scheduled)
TimerFires ==
  /\ call = NoCall
  /\ timers # <<>>
  /\ \/ /\ Head(timers) = "newEdge"
        /\ newEdgeHighlight' = {}
        /\ UNCHANGED <<newNodeHighlight, modifiedEdgeHighlight>>
     \/ /\ Head(timers) = "newNode"
        /\ newNodeHighlight' = Null
        /\ newEdgeHighlight' = {}
        /\ UNCHANGED modifiedEdgeHighlight
     \/ /\ Head(timers) = "modified"
        /\ modifiedEdgeHighlight' = {}
        /\ UNCHANGED <<newNodeHighlight, newEdgeHighlight>>
  /\ timers' = Tail(timers)
  /\ UNCHANGED <<graphData, shortestPathInfo, selectingState, addEdgeState,
                 removeEdgeState, modifyWeightState, findPathState,
                 weightInputState, weightEdgeHighlight, errorState, events, call, alertMessage>>

\* ------------------------------------------------------------ specification
\* every Cancel button is rendered in the panel of its mode only
Next ==
  \/ handleAddNewNode
  \/ handleAddEdge
  \/ handleRemoveEdge
  \/ handleModifyWeight
  \/ handleFindPath
  \/ \E node \in 1..MaxNodes : handleNodeClick(node)
  \/ handleDoneSelection
  \/ isSelectingNodes /\ handleCancelSelection
  \/ isAddingEdge /\ handleCancelAddEdge
  \/ isRemovingEdge /\ handleCancelRemoveEdge
  \/ isModifyingWeight /\ handleCancelModifyWeight
  \/ isFindingPath /\ handleCancelFindPath
  \/ \E value \in WeightInputs : handleWeightChange(value)
  \/ handleWeightSubmit
  \/ TimerFires

Spec == Init /\ [][Next]_vars

\* The App whose pending setTimeout callbacks are run by the event loop: a
\* callback that stays pending is eventually run.
SpecExpiry == Init /\ [][Next]_vars /\ WF_vars(TimerFires)

\* ------------------------------------------- cancel handlers called in Idle
\* The App with, besides, its cancel handlers called while no mode is active
\* (no button does that: the handlers are called directly).
CancelWhileIdle ==
  /\ ~isSelectingNodes /\ ~isAddingEdge /\ ~isRemovingEdge
  /\ ~isModifyingWeight /\ ~isFindingPath
  /\ \/ handleCancelSelection
     \/ handleCancelAddEdge
     \/ handleCancelRemoveEdge
     \/ handleCancelModifyWeight
     \/ handleCancelFindPath

NextCancel == Next \/ CancelWhileIdle

SpecCancel == Init /\ [][NextCancel]_vars

\* ------------------------------------------------- the end-to-end scenario
\* The App on the graph of the end-to-end scenario: nodes A, B, C (1, 2, 3)
\* and edges (A, B, 1), (B, C, 1), as the App is after the edge joining A and
\* C was removed from an initial graph of weight-1 edges and the mode left.
ScenarioEdges ==
  << [source |-> 1, target |-> 2, weight |-> 1],
     [source |-> 2, target |-> 3, weight |-> 1] >>

InitScenario ==
  /\ InitSession
  /\ call = NoCall
  /\ nodes = <<1, 2, 3>>
  /\ links = ScenarioEdges

SpecScenario == InitScenario /\ [][Next]_vars

\* ----------------------------------------- findShortestPath on snapshots
\* Snapshots of PathNodes nodes: every unordered pair is absent or joined by
\* one edge, stored in either orientation, of weight 1..PathMaxWeight; and the
\* snapshot of the worked example (1,2,4), (2,3,1), (1,3,10), (3,4,2).
PathPairs == {<<a, b>> \in (1..PathNodes) \X (1..PathNodes) : a < b}

\* 0: no edge; w: (a, b, w); PathMaxWeight + w: (b, a, w)
PathEdge(pair, choice) ==
  IF choice <= PathMaxWeight
  THEN [source |-> pair[1], target |-> pair[2], weight |-> choice]
  ELSE [source |-> pair[2], target |-> pair[1], weight |-> choice - PathMaxWeight]

RECURSIVE PathEdges(_, _)
PathEdges(pairs, choices) ==
  IF pairs = {} THEN <<>>
  ELSE LET pair == CHOOSE p \in pairs :
                     \A q \in pairs : p[1] < q[1] \/ (p[1] = q[1] /\ p[2] <= q[2])
           rest == PathEdges(pairs \ {pair}, choices)
       IN IF choices[pair] = 0 THEN rest
          ELSE <<PathEdge(pair, choices[pair])>> \o rest

ExampleEdges ==
  << [source |-> 1, target |-> 2, weight |-> 4],
     [source |-> 2, target |-> 3, weight |-> 1],
     [source |-> 1, target |-> 3, weight |-> 10],
     [source |-> 3, target |-> 4, weight |-> 2] >>

InitPath ==
  /\ InitSession
  /\ nodes = [i \in 1..PathNodes |-> i]
  /\ \/ \E choices \in [PathPairs -> 0..(2 * PathMaxWeight)] :
          links = PathEdges(PathPairs, choices)
     \/ links = ExampleEdges
  /\ \E s, t \in 1..PathNodes :
       call = [pc |-> "call", startNodeId |-> s, endNodeId |-> t,
               result |-> NullPathInfo]

\* the call findShortestPath(nodes, links, startNodeId, endNodeId) returns
CallFindShortestPath ==
  /\ call.pc = "call"
  /\ call' = [call EXCEPT !.pc = "return",
                          !.result = findShortestPath(nodes, links,
                                                      call.startNodeId, call.endNodeId)]
  /\ UNCHANGED <<graphData, shortestPathInfo, selectingState, addEdgeState,
                 removeEdgeState, modifyWeightState, findPathState,
                 weightInputState, highlightState, errorState, timers, events,
                 alertMessage>>

NextPath == CallFindShortestPath

SpecPath == InitPath /\ [][NextPath]_vars

\* ------------------------------- findShortestPath, one loop step at a time
\* The call record carries the locals of findShortestPath: unvisited (in
\* insertion order), distances, previous, the number of times the body of the
\* selection loop was entered, and current and path of the reconstruction.
\* The snapshots are those of PathNodes nodes with every edge stored as
\* (a, b), a < b (both endpoints of an edge get the same entry in graph
\* whichever way the edge is stored) and of weight 1..LoopMaxWeight, and the
\* snapshot of the worked example.
InitLoop ==
  /\ InitSession
  /\ nodes = [i \in 1..PathNodes |-> i]
  /\ \/ \E choices \in [PathPairs -> 0..LoopMaxWeight] :
          links = PathEdges(PathPairs, choices)
     \/ links = ExampleEdges
  /\ \E s, t \in 1..PathNodes :
       call = [pc |-> "select", startNodeId |-> s, endNodeId |-> t,
               result |-> NullPathInfo,
               unvisited |-> nodes,
               distances |-> [id \in Range(nodes) |-> IF id = s THEN 0 ELSE Infinity],
               previous |-> [id \in Range(nodes) |-> Null],
               iterations |-> 0, current |-> Null, path |-> <<>>]

\* unvisited.delete(current) left out
UnvisitedDeleteNothing(unvisited, current) == unvisited

\* unvisited.delete(current)
UnvisitedDelete(unvisited, current) ==
  SelectSeq(unvisited, LAMBDA id : id # current)

\* one evaluation of while (unvisited.size > 0) and, if entered, of its body
LoopSelect ==
  /\ call.pc = "select"
  /\ call.iterations <= PathNodes
  /\ IF Len(call.unvisited) = 0
     THEN call' = [call EXCEPT !.pc = "reconstruct"]
     ELSE LET current == FindMinUnvisited(call.unvisited, call.distances, Infinity, Null)
          IN IF current = Null \/ current = call.endNodeId
             THEN call' = [call EXCEPT !.pc = "reconstruct",
                                       !.current = current,
                                       !.iterations = @ + 1]
             ELSE LET rest == UnvisitedDelete(call.unvisited, current)
                      st == RelaxNeighbors(AdjacencyList(nodes, links)[current],
                                           current, rest,
                                           [distances |-> call.distances,
                                            previous |-> call.previous])
                  IN call' = [call EXCEPT !.unvisited = rest,
                                          !.distances = st.distances,
                                          !.previous = st.previous,
                                          !.current = current,
                                          !.iterations = @ + 1]

\* if (distances[endNodeId] === Infinity) return null; else start the walk
LoopReconstruct ==
  /\ call.pc = "reconstruct"
  /\ IF call.distances[call.endNodeId] = Infinity
     THEN call' = [call EXCEPT !.pc = "return", !.result = NullPathInfo]
     ELSE call' = [call EXCEPT !.pc = "walk", !.current = call.endNodeId,
                               !.path = <<>>]

\* one evaluation of while (current !== null) and, if entered, of its body
LoopWalk ==
  /\ call.pc = "walk"
  /\ Len(call.path) <= PathNodes
  /\ IF call.current = Null
     THEN call' = [call EXCEPT !.pc = "return",
                               !.result = [path |-> call.path,
                                           totalWeight |-> call.distances[call.endNodeId]]]
     ELSE call' = [call EXCEPT !.path = <<call.current>> \o @,
                               !.current = call.previous[call.current]]

NextLoop ==
  /\ \/ LoopSelect
     \/ LoopReconstruct
     \/ LoopWalk
  /\ UNCHANGED <<graphData, shortestPathInfo, selectingState, addEdgeState,
                 removeEdgeState, modifyWeightState, findPathState,
                 weightInputState, highlightState, errorState, timers, events,
                 alertMessage>>

\* the call runs to its end: a step that can be taken is taken
SpecLoop == InitLoop /\ [][NextLoop]_vars /\ WF_vars(NextLoop)

\* ------------------------------------------- the prompt-driven variants
\* Three earlier variants of the App keep only graphData and edit it through
\* window.prompt: components/Graph.tsx, and the App of part_000 and of
\* part_002. call.pc names the variant that runs. A prompt answers with an
\* id (Null for a cancelled or empty answer, PromptNodes + 1 for the id of no
\* node) and, for the weight, with a text.
PromptVariants == {"Graph.tsx", "part_000", "part_002"}

PromptIds == 0..(PromptNodes + 1)

PromptWeightInputs ==
  {<<>>, <<"0">>, <<"2">>, <<"-", "5">>, <<"1", "x">>, <<"1", "1">>}

\* for (i < nodes.length - 1): nodes[i] is joined to nodes[i + 1]
PromptSequenceEdges(weights) ==
  [i \in 1..(PromptNodes - 1) |->
     [source |-> i, target |-> i + 1, weight |-> weights[i]]]

RECURSIVE PromptRandomEdges(_, _)
\* for (i < 10): a random pair is joined unless its two nodes are the same
PromptRandomEdges(picks, i) ==
  IF i > PromptExtraEdges THEN <<>>
  ELSE (IF picks[i].source # picks[i].target THEN <<picks[i]>> ELSE <<>>)
       \o PromptRandomEdges(picks, i + 1)

InitPrompt ==
  /\ InitSession
  /\ nodes = [i \in 1..PromptNodes |-> i]
  /\ \E weights \in [1..(PromptNodes - 1) ->
                        {weight \in generateWeight : weight <= InitMaxWeight}],
        picks \in [1..PromptExtraEdges ->
                     [source : 1..PromptNodes, target : 1..PromptNodes,
                      weight : {weight \in generateWeight : weight <= InitMaxWeight}]] :
       links = PromptSequenceEdges(weights) \o PromptRandomEdges(picks, 1)
  /\ \E variant \in PromptVariants :
       call = [pc |-> variant, startNodeId |-> Null, endNodeId |-> Null,
               result |-> NullPathInfo]

\* one more button of a prompt-driven variant is clicked
PromptEvent(variant) ==
  call.pc = variant /\ events < PromptEvents /\ events' = events + 1

\* what no prompt-driven handler touches
PromptFrame ==
  UNCHANGED <<nodes, shortestPathInfo, selectingState, addEdgeState,
              removeEdgeState, modifyWeightState, findPathState,
              weightInputState, highlightState, errorState, timers, call>>

\* components/Graph.tsx, handleAddEdge
GraphHandleAddEdge(source, target, weightStr) ==
  /\ PromptEvent("Graph.tsx")
  /\ IF source # Null /\ target # Null /\ weightStr # <<>>
        /\ ~parseInt(weightStr).isNaN
     THEN links' = Append(links, [source |-> source, target |-> target,
                                  weight |-> parseInt(weightStr).value])
     ELSE links' = links
  /\ UNCHANGED alertMessage
  /\ PromptFrame

\* part_002, handleAddEdge
Part002HandleAddEdge(source, target, weightStr) ==
  /\ PromptEvent("part_002")
  /\ IF source # Null /\ target # Null /\ weightStr # <<>>
     THEN LET weight == parseInt(weightStr) IN
          IF ~weight.isNaN /\ weight.value >= 1 /\ weight.value <= 10
          THEN /\ links' = Append(links, [source |-> source, target |-> target,
                                          weight |-> weight.value])
               /\ UNCHANGED alertMessage
          ELSE /\ alertMessage' = "Please enter a valid weight between 1 and 10"
               /\ links' = links
     ELSE UNCHANGED <<links, alertMessage>>
  /\ PromptFrame

\* part_000, handleAddEdge: the prompts ask for node numbers, the weight is
\* generated
Part000HandleAddEdge(sourceId, targetId) ==
  /\ PromptEvent("part_000")
  /\ IF sourceId # Null /\ targetId # Null
     THEN IF sourceId \in Range(nodes) /\ targetId \in Range(nodes)
          THEN /\ \E weight \in generateWeight :
                    links' = Append(links, [source |-> sourceId, target |-> targetId,
                                            weight |-> weight])
               /\ UNCHANGED alertMessage
          ELSE /\ alertMessage' = "Please enter valid node numbers between 1 and 50"
               /\ links' = links
     ELSE UNCHANGED <<links, alertMessage>>
  /\ PromptFrame

\* prev.links.filter(link => !(link.source === source && link.target === target))
PromptRemoveFilter(prevLinks, source, target) ==
  SelectSeq(prevLinks, LAMBDA link : ~(link.source = source /\ link.target = target))

\* components/Graph.tsx, handleRemoveEdge
GraphHandleRemoveEdge(source, target) ==
  /\ PromptEvent("Graph.tsx")
  /\ IF source # Null /\ target # Null
     THEN links' = PromptRemoveFilter(links, source, target)
     ELSE links' = links
  /\ UNCHANGED alertMessage
  /\ PromptFrame

\* part_002, handleRemoveEdge
Part002HandleRemoveEdge(source, target) ==
  /\ PromptEvent("part_002")
  /\ IF source # Null /\ target # Null
     THEN links' = PromptRemoveFilter(links, source, target)
     ELSE links' = links
  /\ UNCHANGED alertMessage
  /\ PromptFrame

\* part_000, handleRemoveEdge
Part000HandleRemoveEdge(sourceId, targetId) ==
  /\ PromptEvent("part_000")
  /\ IF sourceId # Null /\ targetId # Null
     THEN links' = PromptRemoveFilter(links, sourceId, targetId)
     ELSE links' = links
  /\ UNCHANGED alertMessage
  /\ PromptFrame

NextPrompt ==
  \E source, target \in PromptIds :
     \/ \E weightStr \in PromptWeightInputs :
          GraphHandleAddEdge(source, target, weightStr)
     \/ \E weightStr \in PromptWeightInputs :
          Part002HandleAddEdge(source, target, weightStr)
     \/ Part000HandleAddEdge(source, target)
     \/ GraphHandleRemoveEdge(source, target)
     \/ Part002HandleRemoveEdge(source, target)
     \/ Part000HandleRemoveEdge(source, target)

SpecPrompt == InitPrompt /\ [][NextPrompt]_vars

\* ------------------------------------------------------------------ claims
\* some edge of ls joins a and b, in either stored orientation
Joined(ls, a, b) ==
  \E i \in 1..Len(ls) : {ls[i].source, ls[i].target} = {a, b}

\* the mode flags that are set
ActiveModes ==
  {m \in {"SelectingPeersForNewNode", "AddingEdge", "RemovingEdge",
          "ModifyingWeight", "FindingPath"} :
     \/ m = "SelectingPeersForNewNode" /\ isSelectingNodes
     \/ m = "AddingEdge" /\ isAddingEdge
     \/ m = "RemovingEdge" /\ isRemovingEdge
     \/ m = "ModifyingWeight" /\ isModifyingWeight
     \/ m = "FindingPath" /\ isFindingPath}

\* C1: in every reachable state the edge collection holds at most one edge
\* per unordered pair of node ids.
C1_AtMostOneEdgePerPair ==
  \A i, j \in 1..Len(links) :
     i # j => {links[i].source, links[i].target} # {links[j].source, links[j].target}

\* C1 witness: a node was added with its edges, an edge was created by the
\* add-edge picks, and a further pick of an already joined pair was rejected.
C1_Witness ==
  /\ Len(nodes) > InitNodes
  /\ isAddingEdge /\ edgeTargetNode # Null
  /\ edgeError # ""

\* C2: in every reachable state every edge has an integer weight greater
\* than 0.
C2_PositiveWeights ==
  \A i \in 1..Len(links) : links[i].weight \in Nat /\ links[i].weight > 0

\* C2 witness: a node was added with its edges and a weight edit was
\* committed afterwards.
C2_Witness ==
  /\ modifiedEdgeHighlight # {}
  /\ Len(nodes) > InitNodes
  /\ \E i \in 1..Len(links) :
        /\ <<links[i].source, links[i].target>> \in modifiedEdgeHighlight
        /\ links[i].weight = 2

\* C3: in every reachable state at most one of the five mode flags is set.
C3_AtMostOneMode == Cardinality(ActiveModes) <= 1

\* C3 witness: the find-path mode was entered straight from the add-edge
\* mode (whose rejected pick left its message behind; four events leave no
\* room for a cancel in between), and it is the only mode active.
C3_Witness ==
  /\ ActiveModes = {"FindingPath"}
  /\ edgeError # ""
  /\ events = 4

\* some mode-entry handler runs
ModeEntry ==
  \/ handleAddNewNode
  \/ handleAddEdge
  \/ handleRemoveEdge
  \/ handleModifyWeight
  \/ handleFindPath

\* C4: entering any mode leaves the displayed path result empty and every
\* scratch field of every mode empty: sources, targets, pending weight text,
\* error messages and the chosen-peer set.
C4_ModeEntryClearsScratch ==
  [][ModeEntry =>
       /\ shortestPathInfo' = NullPathInfo
       /\ selectedNodes' = <<>>
       /\ edgeSourceNode' = Null /\ edgeTargetNode' = Null
       /\ removeSourceNode' = Null /\ removeTargetNode' = Null
       /\ weightSourceNode' = Null /\ weightTargetNode' = Null
       /\ pathSourceNode' = Null /\ pathTargetNode' = Null
       /\ newWeight' = <<>>
       /\ weightError' = "" /\ edgeError' = "" /\ removeEdgeError' = ""]_vars

\* the least element of a non-empty set of integers
Least(S) == CHOOSE x \in S : \A y \in S : x <= y

RECURSIVE ReachableFrom(_, _)
\* the nodes joined to a node of S by a chain of edges of ls
ReachableFrom(ls, S) ==
  LET S1 == S \cup {ls[i].target : i \in {k \in 1..Len(ls) : ls[k].source \in S}}
               \cup {ls[i].source : i \in {k \in 1..Len(ls) : ls[k].target \in S}}
  IN IF S1 = S THEN S ELSE ReachableFrom(ls, S1)

RECURSIVE LeastWeights(_, _, _)
\* d after k more rounds of relaxing every edge in both directions
LeastWeights(ls, d, k) ==
  IF k = 0 THEN d
  ELSE LeastWeights(ls,
         [v \in DOMAIN d |->
            Least({d[v]}
                  \cup {d[ls[i].source] + ls[i].weight :
                          i \in {e \in 1..Len(ls) : ls[e].target = v}}
                  \cup {d[ls[i].target] + ls[i].weight :
                          i \in {e \in 1..Len(ls) : ls[e].source = v}})],
         k - 1)

\* the least total weight of a chain of edges from s to t (at least Infinity
\* when there is none)
LeastWeight(ns, ls, s, t) ==
  LeastWeights(ls, [v \in Range(ns) |-> IF v = s THEN 0 ELSE Infinity], Len(ns))[t]

\* the weight of the lightest edge joining a and b
EdgeWeight(ls, a, b) ==
  Least({ls[i].weight : i \in {e \in 1..Len(ls) : {ls[e].source, ls[e].target} = {a, b}}})

RECURSIVE SumOfEdgeWeights(_, _)
SumOfEdgeWeights(ls, path) ==
  IF Len(path) < 2 THEN 0
  ELSE EdgeWeight(ls, path[1], path[2]) + SumOfEdgeWeights(ls, Tail(path))

\* path leads from s to t along edges of ls
IsPathBetween(ls, path, s, t) ==
  /\ Len(path) >= 1
  /\ path[1] = s /\ path[Len(path)] = t
  /\ \A i \in 1..(Len(path) - 1) : Joined(ls, path[i], path[i + 1])

\* C5: for two distinct, connected nodes findShortestPath returns a path
\* from the start to the end along edges of the snapshot whose totalWeight
\* is the sum of its edge weights and the least weight of any such path;
\* on the worked example it returns [1,2,3,4] with total weight 7.
C5_ShortestPathCorrect ==
  (/\ call.pc = "return"
   /\ call.startNodeId # call.endNodeId
   /\ call.endNodeId \in ReachableFrom(links, {call.startNodeId}))
  => /\ call.result # NullPathInfo
     /\ IsPathBetween(links, call.result.path, call.startNodeId, call.endNodeId)
     /\ call.result.totalWeight = SumOfEdgeWeights(links, call.result.path)
     /\ call.result.totalWeight =
          LeastWeight(nodes, links, call.startNodeId, call.endNodeId)
     /\ (links = ExampleEdges /\ call.startNodeId = 1 /\ call.endNodeId = 4
           => call.result = [path |-> <<1, 2, 3, 4>>, totalWeight |-> 7])

\* C5 witness: the call on the worked example has returned its path.
C5_Witness ==
  /\ call.pc = "return"
  /\ links = ExampleEdges /\ call.startNodeId = 1 /\ call.endNodeId = 4
  /\ call.result.path = <<1, 2, 3, 4>>

\* C6: findShortestPath returns null exactly when the end node cannot be
\* reached from the start node; a result it does return leads from the start
\* to the end.
C6_NullIffUnreachable ==
  call.pc = "return"
  => /\ (call.result = NullPathInfo)
          <=> (call.endNodeId \notin ReachableFrom(links, {call.startNodeId}))
     /\ call.result # NullPathInfo
          => IsPathBetween(links, call.result.path, call.startNodeId, call.endNodeId)

\* C6 witness: null was returned although the start node has edges, the end
\* node has edges, and they lie in different components.
C6_Witness ==
  /\ call.pc = "return"
  /\ call.result = NullPathInfo
  /\ Cardinality(ReachableFrom(links, {call.startNodeId})) > 1
  /\ Cardinality(ReachableFrom(links, {call.endNodeId})) > 1

\* text is the decimal notation of a positive integer
IsPositiveIntegerText(text) ==
  /\ text # <<>>
  /\ \A i \in 1..Len(text) : text[i] \in Range(Digits)
  /\ \E i \in 1..Len(text) : text[i] # "0"

\* ls without its k-th element
WithoutIndex(ls, k) == SubSeq(ls, 1, k - 1) \o SubSeq(ls, k + 1, Len(ls))

\* C7: in the add-edge mode with a recorded source a, a pick of a node
\* b # a already joined to a (in either stored orientation) sets edgeError,
\* leaves nodes and edges unchanged, and keeps a as the source and the mode
\* active.
C7_DuplicatePickRejected ==
  [][\A b \in 1..MaxNodes :
       (/\ ActiveModes = {"AddingEdge"}
        /\ edgeSourceNode # Null /\ b # edgeSourceNode
        /\ handleNodeClick(b)
        /\ Joined(links, edgeSourceNode, b))
       => /\ edgeError' # ""
          /\ nodes' = nodes /\ links' = links
          /\ edgeSourceNode' = edgeSourceNode
          /\ isAddingEdge']_vars

\* C7 witness: a pick was just rejected, the source is still recorded, and
\* another node is not yet joined to it, so a later pick can create an edge.
C7_Witness ==
  /\ isAddingEdge /\ edgeSourceNode # Null
  /\ edgeError # ""
  /\ \E c \in Range(nodes) :
        c # edgeSourceNode /\ ~Joined(links, edgeSourceNode, c)

\* C8: handleWeightSubmit with a pending input that is not the notation of a
\* positive integer (empty, "0", ...) sets weightError and leaves nodes and
\* edges as they were.
C8_InvalidWeightRejected ==
  [][(handleWeightSubmit /\ ~IsPositiveIntegerText(newWeight))
       => /\ weightError' # ""
          /\ nodes' = nodes /\ links' = links]_vars

\* C8 witness: a submitted "0" was rejected.
C8_Witness ==
  /\ isModifyingWeight /\ weightTargetNode # Null
  /\ newWeight = <<"0">>
  /\ weightError = "Please enter a valid positive number"

\* C9: in the remove-edge mode with a recorded source, a pick of another node
\* joined to it, whichever way the edge is stored, removes exactly that edge:
\* the pair is no longer joined, the other edges and the nodes are unchanged,
\* and there is one edge fewer.
C9_RemoveEitherOrientation ==
  [][\A b \in 1..MaxNodes :
       (/\ ActiveModes = {"RemovingEdge"}
        /\ removeSourceNode # Null /\ b # removeSourceNode
        /\ handleNodeClick(b)
        /\ Joined(links, removeSourceNode, b))
       => /\ ~Joined(links', removeSourceNode, b)
          /\ ~Joined(links', b, removeSourceNode)
          /\ nodes' = nodes
          /\ Len(links') = Len(links) - 1
          /\ \E k \in 1..Len(links) :
               /\ {links[k].source, links[k].target} = {removeSourceNode, b}
               /\ links' = WithoutIndex(links, k)]_vars

\* C9 witness: the initial edge stored as (1, 3) was removed by picking 3 and
\* then 1.
C9_Witness ==
  /\ isRemovingEdge /\ removeSourceNode = 3 /\ removeTargetNode = 1
  /\ events = 3
  /\ Len(links) = MaxInitialEdges - 1
  /\ ~Joined(links, 1, 3)

\* C10: in the remove-edge mode with a recorded source, a pick of another
\* node not joined to it sets removeEdgeError, leaves nodes and edges
\* unchanged and keeps the source.
C10_MissingEdgeRejected ==
  [][\A b \in 1..MaxNodes :
       (/\ ActiveModes = {"RemovingEdge"}
        /\ removeSourceNode # Null /\ b # removeSourceNode
        /\ handleNodeClick(b)
        /\ ~Joined(links, removeSourceNode, b))
       => /\ removeEdgeError' # ""
          /\ nodes' = nodes /\ links' = links
          /\ removeSourceNode' = removeSourceNode]_vars

\* C10 witness: the target whose edge was just removed was picked again and
\* rejected (no other pair of the initial graph lacks an edge).
C10_Witness ==
  /\ isRemovingEdge /\ removeSourceNode # Null /\ removeTargetNode # Null
  /\ removeEdgeError # ""
  /\ Len(nodes) = InitNodes /\ Len(links) = MaxInitialEdges - 1
  /\ events = 4

RECURSIVE NumberDenoted(_)
\* the number whose decimal notation is text (a sequence of digits)
NumberDenoted(text) ==
  IF text = <<>> THEN 0
  ELSE 10 * NumberDenoted(SubSeq(text, 1, Len(text) - 1))
       + (CHOOSE d \in 0..9 : Digits[d + 1] = text[Len(text)])

\* the edge joining a and b is drawn highlighted: its key is looked up in
\* both orientations
Highlighted(set, a, b) == <<a, b>> \in set \/ <<b, a>> \in set

\* C11: a handleWeightSubmit in the modify-weight mode with recorded source s
\* and target t and a pending input denoting a positive integer v changes
\* exactly one edge, the one joining s and t in either stored orientation:
\* its weight becomes v, its endpoints, every other edge and the nodes are
\* unchanged, the pending input is cleared and the edge is registered in
\* modifiedEdgeHighlight.
C11_WeightSubmitChangesOneEdge ==
  [][(/\ ActiveModes = {"ModifyingWeight"}
      /\ weightSourceNode # Null /\ weightTargetNode # Null
      /\ IsPositiveIntegerText(newWeight)
      /\ handleWeightSubmit)
     => /\ \E k \in 1..Len(links) :
             /\ {links[k].source, links[k].target}
                  = {weightSourceNode, weightTargetNode}
             /\ links' = [links EXCEPT ![k].weight = NumberDenoted(newWeight)]
        /\ nodes' = nodes
        /\ newWeight' = <<>>
        /\ Highlighted(modifiedEdgeHighlight', weightSourceNode, weightTargetNode)
        /\ Cardinality(modifiedEdgeHighlight') = 1]_vars

\* C11 witness: a weight was committed to an edge stored the other way round
\* than it was picked.
C11_Witness ==
  /\ isModifyingWeight /\ weightSourceNode # Null /\ weightTargetNode # Null
  /\ newWeight = <<>> /\ weightError = ""
  /\ modifiedEdgeHighlight = {<<weightSourceNode, weightTargetNode>>}
  /\ \E i \in 1..Len(links) :
        /\ links[i].source = weightTargetNode
        /\ links[i].target = weightSourceNode

\* C12: in the add-edge mode with recorded source a, a pick of a node b # a
\* not joined to a appends exactly one edge (a, b, w) with w > 0, registers
\* it in newEdgeHighlight, records b as the target and keeps the mode and
\* the source a; this holds as well after an edge was created in the same
\* session (a target is already recorded), so a further pick of c creates
\* (a, c) without entering the mode again.
C12_AddEdgeChains ==
  [][\A b \in 1..MaxNodes :
       (/\ ActiveModes = {"AddingEdge"}
        /\ edgeSourceNode # Null /\ b # edgeSourceNode
        /\ ~Joined(links, edgeSourceNode, b)
        /\ handleNodeClick(b))
       => /\ Len(links') = Len(links) + 1
          /\ SubSeq(links', 1, Len(links)) = links
          /\ links'[Len(links')].source = edgeSourceNode
          /\ links'[Len(links')].target = b
          /\ links'[Len(links')].weight > 0
          /\ nodes' = nodes
          /\ Highlighted(newEdgeHighlight', edgeSourceNode, b)
          /\ edgeTargetNode' = b
          /\ edgeSourceNode' = edgeSourceNode
          /\ ActiveModes' = {"AddingEdge"}]_vars

\* C12 witness: two edges (a, b) and (a, c) were created one after the other
\* from the same source in one session; both highlight timers are pending.
C12_Witness ==
  /\ isAddingEdge /\ edgeSourceNode # Null /\ edgeTargetNode # Null
  /\ timers = <<"newEdge", "newEdge">>
  /\ Len(links) >= 2
  /\ links[Len(links)].source = edgeSourceNode
  /\ links[Len(links)].target = edgeTargetNode
  /\ links[Len(links) - 1].source = edgeSourceNode
  /\ links[Len(links) - 1].target # edgeTargetNode

\* C13: in the find-path mode with recorded source s, a pick of a node t # s
\* leaves nodes and edges unchanged; if t can be reached from s the result
\* stored in shortestPathInfo is a least-weight path from s to t and t is
\* recorded as pathTargetNode; if not, a notice is shown, the mode stays
\* active, pathSourceNode stays s and t is not recorded as the target.
C13_FindPathPick ==
  [][\A t \in 1..MaxNodes :
       (/\ ActiveModes = {"FindingPath"}
        /\ pathSourceNode # Null /\ t # pathSourceNode
        /\ handleNodeClick(t))
       => /\ nodes' = nodes /\ links' = links
          /\ IF t \in ReachableFrom(links, {pathSourceNode})
             THEN /\ shortestPathInfo' # NullPathInfo
                  /\ IsPathBetween(links, shortestPathInfo'.path, pathSourceNode, t)
                  /\ shortestPathInfo'.totalWeight
                       = LeastWeight(nodes, links, pathSourceNode, t)
                  /\ pathTargetNode' = t
             ELSE /\ alertMessage' = "No path exists between these nodes"
                  /\ ActiveModes' = {"FindingPath"}
                  /\ pathSourceNode' = pathSourceNode
                  /\ pathTargetNode' # t]_vars

\* C13 witness: the first query of a find-path session found no path: the
\* notice was shown, the source is still recorded and no target is.
C13_Witness ==
  /\ isFindingPath /\ pathSourceNode # Null /\ pathTargetNode = Null
  /\ alertMessage = "No path exists between these nodes"
  /\ \E t \in Range(nodes) : t \notin ReachableFrom(links, {pathSourceNode})

\* C14: a displayed path result is discarded whenever the graph is changed,
\* and after a pick in the find-path mode that starts a query (a source is
\* recorded and another node is picked) shortestPathInfo holds the result of
\* that query only: a path to the picked node, or nothing when there is none.
C14_NewQuerySupersedesResult ==
  [][/\ (nodes' # nodes \/ links' # links) => shortestPathInfo' = NullPathInfo
     /\ \A t \in 1..MaxNodes :
          (/\ ActiveModes = {"FindingPath"}
           /\ pathSourceNode # Null /\ t # pathSourceNode
           /\ handleNodeClick(t))
          => IF t \in ReachableFrom(links, {pathSourceNode})
             THEN IsPathBetween(links, shortestPathInfo'.path, pathSourceNode, t)
             ELSE shortestPathInfo' = NullPathInfo]_vars

\* C15: handleDoneSelection in the peer-selection mode with no peer chosen
\* fails: a notice is shown, no node and no edge is added, the mode stays
\* active and the pending node id and the (empty) peer set are unchanged.
C15_DoneWithoutPeersFails ==
  [][(/\ ActiveModes = {"SelectingPeersForNewNode"}
      /\ selectedNodes = <<>>
      /\ handleDoneSelection)
     => /\ alertMessage' = "Please select at least one node to connect with"
        /\ nodes' = nodes /\ links' = links
        /\ ActiveModes' = {"SelectingPeersForNewNode"}
        /\ newNodeId' = newNodeId
        /\ selectedNodes' = <<>>]_vars

\* C15 witness: Done was pressed with no peer chosen; the selection is still
\* going on with its pending node id.
C15_Witness ==
  /\ isSelectingNodes /\ newNodeId # Null /\ selectedNodes = <<>>
  /\ alertMessage = "Please select at least one node to connect with"
  /\ Len(nodes) = InitNodes

\* C16: handleDoneSelection with a pending id n and a non-empty set P of
\* chosen peers appends the one node n (not a node before) and |P| edges,
\* exactly one joining n and each member of P, each of weight > 0; the
\* earlier nodes and edges are unchanged; n and the new edges are registered
\* as highlighted; no mode is active afterwards and the peer set and the
\* pending id are cleared.
C16_DoneAddsNodeAndEdges ==
  [][(/\ ActiveModes = {"SelectingPeersForNewNode"}
      /\ newNodeId # Null /\ selectedNodes # <<>>
      /\ handleDoneSelection)
     => /\ newNodeId \notin Range(nodes)
        /\ nodes' = Append(nodes, newNodeId)
        /\ Len(links') = Len(links) + Cardinality(Range(selectedNodes))
        /\ SubSeq(links', 1, Len(links)) = links
        /\ \A p \in Range(selectedNodes) :
             Cardinality({i \in (Len(links) + 1)..Len(links') :
                            {links'[i].source, links'[i].target} = {newNodeId, p}}) = 1
        /\ \A i \in (Len(links) + 1)..Len(links') : links'[i].weight > 0
        /\ newNodeHighlight' = newNodeId
        /\ \A p \in Range(selectedNodes) :
             Highlighted(newEdgeHighlight', newNodeId, p)
        /\ Cardinality(newEdgeHighlight') = Cardinality(Range(selectedNodes))
        /\ ActiveModes' = {}
        /\ selectedNodes' = <<>>
        /\ newNodeId' = Null]_vars

\* C16 witness: a node was added with two peers; it and its two edges are
\* highlighted and no mode is active.
C16_Witness ==
  /\ ActiveModes = {}
  /\ Len(nodes) = InitNodes + 1
  /\ newNodeHighlight = nodes[Len(nodes)]
  /\ Cardinality(newEdgeHighlight) = 2
  /\ Len(links) = MaxInitialEdges + 2
  /\ \A i \in (MaxInitialEdges + 1)..Len(links) :
        links[i].source = newNodeHighlight /\ <<links[i].source, links[i].target>> \in newEdgeHighlight

\* C17: no step that enters or stays in the peer-selection mode (the entry
\* by handleAddNewNode, the peer toggles, a rejected Done) changes nodes or
\* edges, and handleCancelSelection leaves them unchanged too, discards the
\* pending node id and the chosen peers and leaves no mode active: after the
\* cancel the graph is what it was when handleAddNewNode was invoked.
C17_CancelSelectionRestores ==
  [][/\ (isSelectingNodes' \/ (isSelectingNodes /\ handleCancelSelection))
          => nodes' = nodes /\ links' = links
     /\ (ActiveModes = {"SelectingPeersForNewNode"} /\ handleCancelSelection)
          => /\ ActiveModes' = {}
             /\ newNodeId' = Null
             /\ selectedNodes' = <<>>]_vars

\* C17 witness: the selection was cancelled right after a Done that was
\* rejected for want of peers (two events: the entry and the cancel).
C17_Witness ==
  /\ ActiveModes = {}
  /\ alertMessage = "Please select at least one node to connect with"
  /\ events = 2
  /\ newNodeId = Null /\ selectedNodes = <<>>
  /\ Len(nodes) = InitNodes

\* C18: each of handleCancelAddEdge, handleCancelRemoveEdge,
\* handleCancelModifyWeight and handleCancelFindPath, invoked in its mode,
\* leaves no mode active, empties that mode's source, target, pending input
\* and error message, leaves nodes and edges unchanged, and the cancel of the
\* find-path mode clears the displayed path result.
C18_CancelDiscardsScratch ==
  [][/\ (ActiveModes = {"AddingEdge"} /\ handleCancelAddEdge)
          => /\ ActiveModes' = {}
             /\ edgeSourceNode' = Null /\ edgeTargetNode' = Null
             /\ edgeError' = ""
             /\ nodes' = nodes /\ links' = links
     /\ (ActiveModes = {"RemovingEdge"} /\ handleCancelRemoveEdge)
          => /\ ActiveModes' = {}
             /\ removeSourceNode' = Null /\ removeTargetNode' = Null
             /\ removeEdgeError' = ""
             /\ nodes' = nodes /\ links' = links
     /\ (ActiveModes = {"ModifyingWeight"} /\ handleCancelModifyWeight)
          => /\ ActiveModes' = {}
             /\ weightSourceNode' = Null /\ weightTargetNode' = Null
             /\ newWeight' = <<>> /\ weightError' = ""
             /\ nodes' = nodes /\ links' = links
     /\ (ActiveModes = {"FindingPath"} /\ handleCancelFindPath)
          => /\ ActiveModes' = {}
             /\ pathSourceNode' = Null /\ pathTargetNode' = Null
             /\ shortestPathInfo' = NullPathInfo
             /\ nodes' = nodes /\ links' = links]_vars

C20_NoStrayEdgeAfterFindPath ==
  [][/\ (isAddingEdge /\ edgeSourceNode # Null /\ handleFindPath)
          => edgeSourceNode' = Null /\ ActiveModes' = {"FindingPath"}
     /\ \A n \in 1..MaxNodes :
          (isFindingPath /\ handleNodeClick(n)) => links' = links
     /\ ~isAddingEdge' => edgeSourceNode' = Null
     /\ (~isAddingEdge /\ isAddingEdge') => edgeSourceNode' = Null
     /\ (edgeSourceNode' # edgeSourceNode /\ edgeSourceNode' # Null)
          => /\ isAddingEdge /\ edgeSourceNode = Null
             /\ handleNodeClick(edgeSourceNode')
     /\ \A n \in 1..MaxNodes :
          (Len(links') > Len(links) /\ handleNodeClick(n))
          => /\ isAddingEdge /\ edgeSourceNode # Null
             /\ links'[Len(links')].source = edgeSourceNode]_vars

\* C20 witness: the find-path mode was entered from an add-edge session whose
\* source was recorded (its second pick had been rejected), and a node was
\* then picked in the find-path mode: no source is left and the edges are
\* the initial ones.
C20_Witness ==
  /\ ActiveModes = {"FindingPath"} /\ pathSourceNode # Null
  /\ edgeError # "" /\ edgeSourceNode = Null
  /\ events = 5
  /\ Len(links) = MaxInitialEdges

\* C21: every highlight registration expires on its own. When an edge is
\* added in an add-edge session while the edge added before it in that
\* session is still highlighted (its timer has not fired), the earlier edge
\* stays highlighted; and when the timer of an earlier registration fires
\* while the latest registration (the one whose timer is last in the queue)
\* is highlighted, that highlight stays.
C21_IndependentExpiry ==
  [][/\ \A b \in 1..MaxNodes :
          (/\ isAddingEdge /\ edgeSourceNode # Null /\ edgeTargetNode # Null
           /\ <<edgeSourceNode, edgeTargetNode>> \in newEdgeHighlight
           /\ Len(links') > Len(links)
           /\ handleNodeClick(b))
          => <<edgeSourceNode, edgeTargetNode>> \in newEdgeHighlight'
     /\ (/\ Len(timers) >= 2 /\ timers[Len(timers)] = "newEdge"
         /\ newEdgeHighlight # {}
         /\ TimerFires)
          => newEdgeHighlight' = newEdgeHighlight
     /\ (/\ Len(timers) >= 2 /\ timers[Len(timers)] = "modified"
         /\ modifiedEdgeHighlight # {}
         /\ TimerFires)
          => modifiedEdgeHighlight' = modifiedEdgeHighlight]_vars

\* C22: a mode entry or a change of the edges clears every highlight
\* registered before it: right after a mode-entry handler no highlight is
\* left, and right after an edge was added or removed or a weight changed,
\* newNodeHighlight, newEdgeHighlight, modifiedEdgeHighlight and
\* weightEdgeHighlight hold nothing they held before (but for the edge that
\* very change registers).
C22_HighlightsSuperseded ==
  [][/\ ModeEntry
          => /\ newNodeHighlight' = Null /\ newEdgeHighlight' = {}
             /\ modifiedEdgeHighlight' = {} /\ weightEdgeHighlight' = {}
     /\ links' # links
          => /\ newNodeHighlight' = Null \/ newNodeHighlight' # newNodeHighlight
             /\ newEdgeHighlight' \cap newEdgeHighlight = {}
             /\ (modifiedEdgeHighlight' \cap modifiedEdgeHighlight)
                  \subseteq {<<weightSourceNode, weightTargetNode>>}
             /\ weightEdgeHighlight' \cap weightEdgeHighlight = {}]_vars

\* C23: end to end, from nodes A, B, C and edges (A, B, 1), (B, C, 1): in the
\* add-edge mode with source A a pick of C appends a highlighted edge
\* (A, C, w) with w > 0; then in the find-path mode with source A a pick of
\* C stores a result of total weight min(w, 2), with path [A, C] when w < 2
\* and path [A, B, C] when w > 2.
C23_EndToEnd ==
  [][/\ (/\ links = ScenarioEdges
         /\ ActiveModes = {"AddingEdge"} /\ edgeSourceNode = 1
         /\ handleNodeClick(3))
          => /\ Len(links') = 3 /\ SubSeq(links', 1, 2) = ScenarioEdges
             /\ links'[3].source = 1 /\ links'[3].target = 3
             /\ links'[3].weight > 0
             /\ Highlighted(newEdgeHighlight', 1, 3)
     /\ (/\ Len(links) = 3 /\ SubSeq(links, 1, 2) = ScenarioEdges
         /\ links[3].source = 1 /\ links[3].target = 3
         /\ ActiveModes = {"FindingPath"} /\ pathSourceNode = 1
         /\ handleNodeClick(3))
          => /\ shortestPathInfo'.totalWeight
                  = (IF links[3].weight < 2 THEN links[3].weight ELSE 2)
             /\ links[3].weight < 2 => shortestPathInfo'.path = <<1, 3>>
             /\ links[3].weight > 2 => shortestPathInfo'.path = <<1, 2, 3>>]_vars

\* C23 witness: the scenario was played in its six events with w = 3 drawn:
\* the stored path goes through B.
C23_Witness ==
  /\ events = 6
  /\ Len(links) = 3 /\ SubSeq(links, 1, 2) = ScenarioEdges
  /\ links[3] = [source |-> 1, target |-> 3, weight |-> 3]
  /\ ActiveModes = {"FindingPath"} /\ pathSourceNode = 1 /\ pathTargetNode = 3
  /\ shortestPathInfo = [path |-> <<1, 2, 3>>, totalWeight |-> 2]

\* C24: in every reachable state the two endpoints of every edge are ids of
\* nodes of the node collection and differ from each other.
C24_EndpointsAreDistinctNodes ==
  \A i \in 1..Len(links) :
     /\ links[i].source \in Range(nodes)
     /\ links[i].target \in Range(nodes)
     /\ links[i].source # links[i].target

\* C24 witness: a node was added with its edges, an edge was then created by
\* add-edge picks, and a pick of the recorded source itself was possible.
C24_Witness ==
  /\ Len(nodes) > InitNodes
  /\ isAddingEdge /\ edgeSourceNode # Null /\ edgeTargetNode # Null
  /\ Len(links) > MaxInitialEdges + 1
  /\ links[Len(links)].target = edgeTargetNode

\* C25: nodes are never destroyed and their ids stay unique: over every
\* step the ids of the next state include those of the current one, the node
\* collection changes only by a handleDoneSelection that succeeds, and no
\* two nodes share an id.
C25_NodesOnlyGrow ==
  [][/\ Range(nodes) \subseteq Range(nodes')
     /\ nodes' # nodes
          => /\ isSelectingNodes /\ newNodeId # Null /\ selectedNodes # <<>>
             /\ handleDoneSelection
     /\ Cardinality(Range(nodes)) = Len(nodes)
     /\ Cardinality(Range(nodes')) = Len(nodes')]_vars

\* C25 witness: a node was added under the next free number and its
\* highlight has expired.
C25_Witness ==
  /\ Len(nodes) = InitNodes + 1
  /\ nodes[Len(nodes)] = InitNodes + 1
  /\ newNodeHighlight = Null /\ timers = <<>>

\* C26: in the add-edge, remove-edge, modify-weight and find-path modes a
\* pick while no source is recorded records the picked node as the source of
\* the mode, empties the error message of the mode, records no target and
\* leaves nodes, edges and the mode as they were.
C26_FirstPickRecordsSource ==
  [][\A n \in 1..MaxNodes :
       /\ (ActiveModes = {"AddingEdge"} /\ edgeSourceNode = Null /\ handleNodeClick(n))
            => /\ edgeSourceNode' = n /\ edgeTargetNode' = Null /\ edgeError' = ""
               /\ nodes' = nodes /\ links' = links
               /\ ActiveModes' = {"AddingEdge"}
       /\ (ActiveModes = {"RemovingEdge"} /\ removeSourceNode = Null /\ handleNodeClick(n))
            => /\ removeSourceNode' = n /\ removeTargetNode' = Null
               /\ removeEdgeError' = ""
               /\ nodes' = nodes /\ links' = links
               /\ ActiveModes' = {"RemovingEdge"}
       /\ (ActiveModes = {"ModifyingWeight"} /\ weightSourceNode = Null /\ handleNodeClick(n))
            => /\ weightSourceNode' = n /\ weightTargetNode' = Null
               /\ weightError' = ""
               /\ nodes' = nodes /\ links' = links
               /\ ActiveModes' = {"ModifyingWeight"}
       /\ (ActiveModes = {"FindingPath"} /\ pathSourceNode = Null /\ handleNodeClick(n))
            => /\ pathSourceNode' = n /\ pathTargetNode' = Null
               /\ nodes' = nodes /\ links' = links
               /\ ActiveModes' = {"FindingPath"}]_vars

\* C26 witness: an add-edge session was entered anew while the message of a
\* rejected pick was still set, and its first pick emptied the message.
C26_Witness ==
  /\ isAddingEdge /\ edgeSourceNode # Null /\ edgeTargetNode = Null
  /\ edgeError = ""
  /\ events = 5
  /\ Len(nodes) = InitNodes /\ Len(links) = MaxInitialEdges
  /\ removeEdgeError = "" /\ alertMessage = ""
  /\ weightEdgeHighlight = {}

\* the source recorded by the one active mode (Null when none is)
RecordedSource ==
  IF isAddingEdge THEN edgeSourceNode
  ELSE IF isRemovingEdge THEN removeSourceNode
  ELSE IF isModifyingWeight THEN weightSourceNode
  ELSE IF isFindingPath THEN pathSourceNode
  ELSE Null

\* C27: in the add-edge, remove-edge, modify-weight and find-path modes a
\* pick of the node already recorded as the source changes nothing: graph,
\* modes, sources, targets, pending input, error messages, path result and
\* highlights are as they were, and no notice is shown.
C27_SourcePickIsNoOp ==
  [][\A n \in 1..MaxNodes :
       (/\ ~isSelectingNodes /\ Cardinality(ActiveModes) = 1
        /\ RecordedSource # Null /\ n = RecordedSource
        /\ handleNodeClick(n))
       => UNCHANGED <<graphData, shortestPathInfo, selectingState, addEdgeState,
                      removeEdgeState, modifyWeightState, findPathState,
                      weightInputState, highlightState, errorState, alertMessage>>]_vars

\* C27 witness: the remove-edge mode has just recorded its source, which can
\* be picked again.
C27_Witness ==
  /\ ActiveModes = {"RemovingEdge"}
  /\ RecordedSource # Null /\ RecordedSource \in Range(nodes)
  /\ removeTargetNode = Null
  /\ events = 2

\* C28: handleAddNewNode adds no node: it records a pending id that no node
\* has and an empty peer set; as long as the peer-selection mode lasts nodes
\* and edges are unchanged; and a pick in that mode toggles the picked node
\* in the peer set (in if it was out, out if it was in, so two picks of one
\* node restore the set) and keeps the pending id.
C28_PendingNodeAndPeerToggle ==
  [][/\ handleAddNewNode
          => /\ nodes' = nodes /\ links' = links
             /\ newNodeId' # Null /\ newNodeId' \notin Range(nodes)
             /\ selectedNodes' = <<>>
     /\ (isSelectingNodes /\ isSelectingNodes')
          => nodes' = nodes /\ links' = links
     /\ \A n \in 1..MaxNodes :
          (ActiveModes = {"SelectingPeersForNewNode"} /\ handleNodeClick(n))
          => /\ Range(selectedNodes')
                  = IF n \in Range(selectedNodes)
                    THEN Range(selectedNodes) \ {n}
                    ELSE Range(selectedNodes) \cup {n}
             /\ Cardinality(Range(selectedNodes')) = Len(selectedNodes')
             /\ newNodeId' = newNodeId]_vars

\* C28 witness: two peers are chosen for a pending node that is not in the
\* graph.
C28_Witness ==
  /\ isSelectingNodes /\ newNodeId # Null /\ newNodeId \notin Range(nodes)
  /\ Len(selectedNodes) = 2
  /\ Len(nodes) = InitNodes /\ Len(links) = MaxInitialEdges

\* C29: in the modify-weight mode with recorded source s a pick of a node
\* t # s leaves nodes and edges unchanged; if an edge joins s and t (in
\* either orientation) t becomes the target, the pending input becomes the
\* decimal notation of that edge's weight and the error is emptied; if none
\* does, weightError is set and the source stays s.
C29_WeightTargetPick ==
  [][\A t \in 1..MaxNodes :
       (/\ ActiveModes = {"ModifyingWeight"}
        /\ weightSourceNode # Null /\ t # weightSourceNode
        /\ handleNodeClick(t))
       => /\ nodes' = nodes /\ links' = links
          /\ IF Joined(links, weightSourceNode, t)
             THEN /\ weightTargetNode' = t
                  /\ weightError' = ""
                  /\ IsPositiveIntegerText(newWeight') /\ newWeight'[1] # "0"
                  /\ NumberDenoted(newWeight') = EdgeWeight(links, weightSourceNode, t)
             ELSE /\ weightError' # ""
                  /\ weightSourceNode' = weightSourceNode]_vars

\* C29 witness: a pick of a node not joined to the recorded source was
\* answered with the message.
C29_Witness ==
  /\ isModifyingWeight /\ weightSourceNode # Null
  /\ weightError = "No edge exists between these nodes"
  /\ \E t \in Range(nodes) :
        t # weightSourceNode /\ ~Joined(links, weightSourceNode, t)

\* the Add Edge panel shows the paragraph of edgeError: it is rendered in
\* the "Step 2: Select target node" arm only, the one of a recorded source
\* and no recorded target
EdgeErrorShown ==
  /\ isAddingEdge
  /\ edgeSourceNode # Null /\ edgeTargetNode = Null
  /\ edgeError # ""

\* the Remove Edge panel shows the paragraph of removeEdgeError, rendered in
\* its "Step 2: Select target node" arm only
RemoveEdgeErrorShown ==
  /\ isRemovingEdge
  /\ removeSourceNode # Null /\ removeTargetNode = Null
  /\ removeEdgeError # ""

\* C30: a pick that is rejected in the add-edge mode (the picked node is
\* already joined to the source) or in the remove-edge mode (no edge joins
\* the picked node and the source) leaves its error message shown in the
\* panel of the mode, also when a target of an earlier successful pick of
\* the session is recorded.
C30_RejectedPickErrorIsShown ==
  [][\A n \in 1..MaxNodes :
       /\ (/\ ActiveModes = {"AddingEdge"}
           /\ edgeSourceNode # Null /\ n # edgeSourceNode
           /\ Joined(links, edgeSourceNode, n)
           /\ handleNodeClick(n))
            => EdgeErrorShown'
       /\ (/\ ActiveModes = {"RemovingEdge"}
           /\ removeSourceNode # Null /\ n # removeSourceNode
           /\ ~Joined(links, removeSourceNode, n)
           /\ handleNodeClick(n))
            => RemoveEdgeErrorShown']_vars

\* C31: when pending timer callbacks are eventually run, every highlight
\* registered with a 15000 ms timer is eventually removed: a highlighted new
\* node leads to newNodeHighlight = null, highlighted new edges lead to an
\* empty newEdgeHighlight and a highlighted modified edge leads to an empty
\* modifiedEdgeHighlight.
C31_HighlightsExpire ==
  /\ (newNodeHighlight # Null) ~> (newNodeHighlight = Null)
  /\ (newEdgeHighlight # {}) ~> (newEdgeHighlight = {})
  /\ (modifiedEdgeHighlight # {}) ~> (modifiedEdgeHighlight = {})

\* C31 witness: an edge was created in the add-edge session that is still
\* open (its target is recorded) and its highlight has expired with the last
\* pending timer.
C31_Witness ==
  /\ isAddingEdge /\ edgeSourceNode # Null /\ edgeTargetNode # Null
  /\ Joined(links, edgeSourceNode, edgeTargetNode)
  /\ newEdgeHighlight = {} /\ newNodeHighlight = Null
  /\ modifiedEdgeHighlight = {}
  /\ timers = <<>>

\* C32: a step in which a highlight timer fires (the only step that shortens
\* the pending timers) changes highlight state only: nodes, edges, the mode
\* flags, the scratch fields of every mode, the pending input, the error
\* messages and the displayed path result are as before; and when no
\* timed highlight is present it changes no highlight either.
C32_TimerTouchesHighlightsOnly ==
  [][Len(timers') < Len(timers)
      => /\ UNCHANGED <<graphData, shortestPathInfo, selectingState, addEdgeState,
                        removeEdgeState, modifyWeightState, findPathState,
                        weightInputState, errorState, alertMessage>>
         /\ (/\ newNodeHighlight = Null /\ newEdgeHighlight = {}
             /\ modifiedEdgeHighlight = {})
              => UNCHANGED highlightState]_vars

\* C32 witness: every timer has fired while a path found after the new node
\* was added is displayed.
C32_Witness ==
  /\ Len(nodes) = InitNodes + 1
  /\ isFindingPath /\ shortestPathInfo # NullPathInfo
  /\ pathSourceNode # Null /\ pathTargetNode # Null
  /\ newNodeHighlight = Null /\ newEdgeHighlight = {}
  /\ timers = <<>>

\* C33: findShortestPath terminates on every snapshot with positive weights:
\* the body of the selection loop is entered at most |nodes| times; the loop
\* is left when unvisited is empty, when no unvisited node has a distance
\* below Infinity or when the selected node is the target; the walk along
\* previous never meets a node twice and ends at the source, whose
\* predecessor is null; the call returns, and with the result the recursive
\* definition gives.
C33_FindShortestPathTerminates ==
  /\ [](call.iterations <= Len(nodes))
  /\ [](call.pc = "reconstruct"
          => \/ Len(call.unvisited) = 0
             \/ \A id \in Range(call.unvisited) : call.distances[id] = Infinity
             \/ call.current = call.endNodeId)
  /\ [](call.pc = "walk" /\ call.current # Null
          => call.current \notin Range(call.path))
  /\ [](call.pc = "walk" /\ call.current = Null
          => /\ call.path # <<>> /\ call.path[1] = call.startNodeId
             /\ call.previous[call.startNodeId] = Null)
  /\ [](call.pc = "return"
          => call.result = findShortestPath(nodes, links, call.startNodeId,
                                            call.endNodeId))
  /\ <>(call.pc = "return")

\* C33 witness: a call returned after the loop body was entered |nodes|
\* times, with a path through every node.
C33_Witness ==
  /\ call.pc = "return"
  /\ call.iterations = Len(nodes)
  /\ Len(call.result.path) = Len(nodes)

\* C34: whenever a shortest-path result is displayed (shortestPathInfo is
\* not null) the find-path mode is active, the first node of the path is
\* pathSourceNode and the last node of the path is pathTargetNode.
C34_DisplayedPathMatchesQuery ==
  shortestPathInfo # NullPathInfo
    => /\ isFindingPath
       /\ shortestPathInfo.path # <<>>
       /\ shortestPathInfo.path[1] = pathSourceNode
       /\ shortestPathInfo.path[Len(shortestPathInfo.path)] = pathTargetNode

\* C34 witness: a path is displayed, and a later pick of the session found
\* no path and left the display as it was.
C34_Witness ==
  /\ shortestPathInfo # NullPathInfo
  /\ Len(shortestPathInfo.path) >= 2
  /\ alertMessage = "No path exists between these nodes"
  /\ \E n \in Range(nodes) :
        findShortestPath(nodes, links, pathSourceNode, n) = NullPathInfo

\* C35: a displayed shortest-path result is never stale: every two
\* consecutive nodes of its path are joined by an edge of the current edge
\* collection, and its totalWeight is the sum of those edges' weights and
\* the least weight of a path between its end nodes in the current graph.
C35_DisplayedPathIsCurrent ==
  shortestPathInfo # NullPathInfo
    => LET path == shortestPathInfo.path IN
       /\ path # <<>>
       /\ Range(path) \subseteq Range(nodes)
       /\ \A i \in 1..(Len(path) - 1) : Joined(links, path[i], path[i + 1])
       /\ shortestPathInfo.totalWeight = SumOfEdgeWeights(links, path)
       /\ shortestPathInfo.totalWeight
            = LeastWeight(nodes, links, path[1], path[Len(path)])

\* C35 witness: the graph was changed (a node and its edges were added) and
\* the path displayed afterwards runs over the new node.
C35_Witness ==
  /\ shortestPathInfo # NullPathInfo
  /\ Len(shortestPathInfo.path) = 3
  /\ Len(nodes) = InitNodes + 1
  /\ nodes[Len(nodes)] \in Range(shortestPathInfo.path)

\* C36: every key of newEdgeHighlight, modifiedEdgeHighlight and
\* weightEdgeHighlight names, in one orientation or the other, an edge of
\* the current edge collection: no highlight refers to a removed edge.
C36_HighlightsNameEdges ==
  \A key \in newEdgeHighlight \cup modifiedEdgeHighlight \cup weightEdgeHighlight :
     Joined(links, key[1], key[2])

\* C37: the chosen-peer set holds only ids of nodes of the graph, never the
\* pending id of the new node, and it is non-empty only while the
\* peer-selection mode is active.
C37_PeersAreGraphNodes ==
  /\ Range(selectedNodes) \subseteq Range(nodes)
  /\ newNodeId # Null => newNodeId \notin Range(selectedNodes)
  /\ selectedNodes # <<>> => isSelectingNodes /\ newNodeId # Null

\* C37 witness: every node of the graph is chosen as a peer of the pending
\* node.
C37_Witness ==
  /\ isSelectingNodes /\ newNodeId # Null
  /\ Range(selectedNodes) = Range(nodes)

\* C38: in the prompt-driven variants handleRemoveEdge takes (a, b) and
\* (b, a) for the same edge: answered with source b and target a, it leaves
\* no edge stored with source a and target b.
C38_PromptRemoveEitherOrientation ==
  [][\A a, b \in 1..PromptNodes :
       (\/ GraphHandleRemoveEdge(b, a)
        \/ Part002HandleRemoveEdge(b, a)
        \/ Part000HandleRemoveEdge(b, a))
       => \A i \in 1..Len(links') :
             ~(links'[i].source = a /\ links'[i].target = b)]_vars

\* C39: in the prompt-driven variants handleAddEdge changes the edge
\* collection only by appending one edge whose two ends are distinct nodes
\* of the graph not joined before, in either orientation, and whose weight
\* is greater than 0.
C39_PromptAddEdgeValidates ==
  [][\A source, target \in PromptIds :
       (/\ \/ \E weightStr \in PromptWeightInputs :
                 \/ GraphHandleAddEdge(source, target, weightStr)
                 \/ Part002HandleAddEdge(source, target, weightStr)
           \/ Part000HandleAddEdge(source, target)
        /\ links' # links)
       => /\ source \in Range(nodes) /\ target \in Range(nodes)
          /\ source # target
          /\ ~Joined(links, source, target)
          /\ Len(links') = Len(links) + 1
          /\ SubSeq(links', 1, Len(links)) = links
          /\ links'[Len(links')].weight > 0]_vars

=============================================================================
